---- MODULE Spec2Model ----
(***************************************************************************)
(* Model of apkregress: the bounded-concurrency regression test runner     *)
(* (RegressionTestRunner.Run / RunFromPackageList / analyzeResults /       *)
(* updateProgress) and the single-trial executor (MelangeClient.           *)
(* TestPackage).                                                           *)
(*                                                                         *)
(* Spec      : the scheduler with every unit task interleaved; a call of   *)
(*             TestPackage is one enter step and one return step.          *)
(* ExecSpec  : one unit task, with TestPackage unfolded statement by       *)
(*             statement (stat, temp dir, log file, process, waiter        *)
(*             goroutine, timer, select, kill, drain, deferred cleanup).   *)
(* ClassSpec : analyzeResults on its own, handed every closed stream of up *)
(*             to MaxStream results.                                       *)
(* ProgressSpec : updateProgress on its own, called by one or two          *)
(*             goroutines on a runner with any counters.                   *)
(* ExecRunFairSpec : two unit tasks and one token, TestPackage unfolded,   *)
(*             under fair scheduling.                                      *)
(* ResolveSpec : Run from its first statement (log directory, reverse      *)
(*             dependencies), then the scheduler as in Spec.               *)
(* ReadSpec  : readPackageFile on every file of up to MaxFile pieces.      *)
(* DepsSpec  : ApkraneClient.GetReverseDependencies on every apkrane       *)
(*             output of up to MaxLines lines.                             *)
(* AnyLimitSpec : Spec with a zero or negative concurrency limit allowed.   *)
(* RunFairSpec : Spec with a limit of at least one, under fair scheduling. *)
(***************************************************************************)
EXTENDS Integers, Sequences, FiniteSets, TLC

\* ---------------------------------------------------------------- bounds
MaxConcurrency == 2

\* longest stream of results handed to analyzeResults on its own
MaxStream == 3

\* largest r.totalTests, and most calls of updateProgress by one caller, when
\* updateProgress is exercised on its own
MaxTotal == 2
MaxCalls == 2

Names == {"a", "b"}

\* The unit lists a run is started on: one unit, two distinct units, and a
\* name listed twice (a package file may repeat a line).
UnitLists == {<<"a">>, <<"b">>, <<"a", "b">>, <<"a", "a">>}

\* ---------------------------------------------------------------- errors
\* The error values TestPackage can return (runner.go 211-215, 239, 253, 284, 297).
Nil == "nil"
ErrPackageYAMLNotFound == "package YAML file not found"
ErrTestHung == "test hung and was killed after timeout"
ErrTempDir == "failed to create temp directory"
ErrLogFile == "failed to create log file"
ErrStart == "failed to start make"
ErrExit == "make failed"

NoErr == "unset"
NoRet == [msg |-> "unset", n |-> 0]
NilRet == [msg |-> "nil", n |-> 0]
NoResult == [Package |-> "", WithRepo |-> FALSE, Success |-> FALSE,
             Hung |-> FALSE, Skipped |-> FALSE]

VARIABLES
    pkgs,            \* the unit list handed to Run / RunFromPackageList
    concurrency,     \* r.concurrency
    verbose,         \* r.verbose
    yaml,            \* names whose <repoPath>/<name>.yaml exists (file system)
    tpc,             \* position of each unit goroutine
    withRepoResult,  \* each goroutine's local withRepoResult
    withoutRepoResult, \* each goroutine's result of the second TestPackage call
    sem,             \* tokens held in the weighted semaphore
    wg,              \* sync.WaitGroup counter
    results,         \* buffered channel `results`
    closed,          \* results has been closed
    completedTests,  \* r.completedTests
    progressShown,   \* number of "Progress: c/t" lines updateProgress has printed
    totalTests,      \* r.totalTests
    calls,           \* history: TestPackage calls, per mode, and updateProgress calls
                     \* made by each goroutine
    sent,            \* history: every result put on the channel, in order, with its sender
    apc,             \* position of the goroutine running Run / analyzeResults
    packageResults,  \* analyzeResults: packageResults map
    visited,         \* analyzeResults: keys already ranged over
    verdict,         \* analyzeResults: branch taken for each key
    regressions, hungTests, successfulPackages, failedPackages, skippedPackages,
    successCount, failureCount, skippedCount,
    files,           \* the contents of the result files written by writeResultFiles (none or one set)
    retErr,          \* value returned by analyzeResults / Run
    exitCode,        \* process exit status set by main
    \* ---- inside one TestPackage call (ExecSpec only)
    epc,             \* position inside TestPackage
    tempDir,         \* the temporary build directory: none / exists / removed
    logFile,         \* the log file: none / open / closed
    logMarker,       \* the "TEST HUNG - KILLED" line has been written
    ctxTimer,        \* context.WithTimeout: none / armed / fired / cancelled
    proc,            \* the make process: none / running / exited / killed / reaped
    exitStatus,      \* how the process ends on its own: 0, 1, or "never"
    waiter,          \* the goroutine around cmd.Wait(): none / waiting / ended
    done,            \* the buffered channel `done`
    killed,          \* cmd.Process.Kill() was called
    execErr,         \* the error TestPackage is returning
    \* ---- readPackageFile (ReadSpec only)
    fileExists,      \* the package file can be opened
    fileContent,     \* the bytes of the package file
    rpc,             \* position inside readPackageFile
    unread,          \* the part of the file the scanner has not consumed
    packages,        \* var packages []string
    readRet,         \* the pair readPackageFile returns
    \* ---- ApkraneClient.GetReverseDependencies (DepsSpec only)
    repoType,        \* a.repoType
    goarch,          \* runtime.GOARCH
    packageName,     \* the package whose reverse dependencies are asked for
    apkOut,          \* the lines apkrane ls prints
    dpc,             \* position inside GetReverseDependencies
    indexURL,        \* indexURL
    httpAuth,        \* HTTP_AUTH is set in the environment of the apkrane command
    dunread,         \* the lines of the output the scanner has not consumed
    parsed,          \* var packages []Package
    depsRet          \* the pair GetReverseDependencies returns

schedVars == <<pkgs, concurrency, verbose, tpc, withRepoResult, withoutRepoResult,
               sem, wg, results, closed, completedTests, progressShown, totalTests,
               calls, sent>>
classVars == <<apc, packageResults, visited, verdict, regressions, hungTests,
               successfulPackages, failedPackages, skippedPackages,
               successCount, failureCount, skippedCount, files, retErr, exitCode>>
execVars == <<epc, tempDir, logFile, logMarker, ctxTimer, proc, exitStatus,
              waiter, done, killed, execErr>>
fileVars == <<fileExists, fileContent, rpc, unread, packages, readRet>>
depVars == <<repoType, goarch, packageName, apkOut, dpc, indexURL, httpAuth,
             dunread, parsed, depsRet>>
cliVars == <<fileVars, depVars>>
vars == <<schedVars, classVars, yaml, execVars, cliVars>>

Tasks == 1..Len(pkgs)

\* ---------------------------------------------------------------- helpers
\* Hung set for every error that is neither an exit error nor a missing YAML
TestResultHungUnlessExit(pkg, withRepo, err) ==
    [Package |-> pkg, WithRepo |-> withRepo, Success |-> (err = Nil),
     Hung |-> (err \notin {Nil, ErrExit, ErrPackageYAMLNotFound}),
     Skipped |-> (err = ErrPackageYAMLNotFound)]

\* TestResult{Package, WithRepo, Success: err == nil, Error: err,
\*            Hung: errors.Is(err, ErrTestHung),
\*            Skipped: errors.Is(err, ErrPackageYAMLNotFound)}
\* (the Error field is never read again and is left out of the record)
TestResult(pkg, withRepo, err) ==
    [Package |-> pkg, WithRepo |-> withRepo, Success |-> (err = Nil),
     Hung |-> (err = ErrTestHung),
     Skipped |-> (err = ErrPackageYAMLNotFound)]

\* Errors a complete TestPackage call can return, given whether the YAML exists.
TestPackageErrs(exists) ==
    IF ~exists THEN {ErrPackageYAMLNotFound}
    ELSE {ErrTempDir, ErrLogFile, ErrStart, ErrExit, Nil, ErrTestHung}

\* a channel with room for one result per package
ResultsCapOnePerUnit == Len(pkgs)

\* make(chan TestResult, len(packages)*2)
ResultsCap == Len(pkgs) * 2

\* TestPackage calls in progress
Running == Cardinality({t \in Tasks : tpc[t] \in {"testWithRepo", "testWithoutRepo"}})

\* ---------------------------------------------------------------- Init
InitClass ==
    /\ apc = "run"
    /\ packageResults = [k \in Names \X BOOLEAN |-> NoResult]
    /\ visited = {}
    /\ verdict = [n \in Names |-> "none"]
    /\ regressions = <<>> /\ hungTests = <<>> /\ successfulPackages = <<>>
    /\ failedPackages = <<>> /\ skippedPackages = <<>>
    /\ successCount = 0 /\ failureCount = 0 /\ skippedCount = 0
    /\ files = <<>>
    /\ retErr = NoRet
    /\ exitCode = -1

InitExec ==
    /\ epc = "idle"
    /\ tempDir = "none"
    /\ logFile = "none"
    /\ logMarker = FALSE
    /\ ctxTimer = "none"
    /\ proc = "none"
    /\ exitStatus = "none"
    /\ waiter = "none"
    /\ done = <<>>
    /\ killed = FALSE
    /\ execErr = NoErr

\* readPackageFile has not been called
NoRead == [packages |-> <<>>, err |-> NoErr]

InitFile ==
    /\ fileExists = FALSE
    /\ fileContent = <<>>
    /\ rpc = "idle"
    /\ unread = <<>>
    /\ packages = <<>>
    /\ readRet = NoRead

\* GetReverseDependencies has not been called
NoDeps == [origins |-> <<>>, err |-> NoErr]

InitDeps ==
    /\ repoType = "wolfi"
    /\ goarch = "amd64"
    /\ packageName = <<>>
    /\ apkOut = <<>>
    /\ dpc = "idle"
    /\ indexURL = <<>>
    /\ httpAuth = FALSE
    /\ dunread = <<>>
    /\ parsed = <<>>
    /\ depsRet = NoDeps

InitCli == InitFile /\ InitDeps

InitRun ==
    /\ tpc = [t \in Tasks |-> "unstarted"]
    /\ withRepoResult = [t \in Tasks |-> NoResult]
    /\ withoutRepoResult = [t \in Tasks |-> NoResult]
    /\ sem = 0
    /\ wg = 0
    /\ results = <<>>
    /\ closed = FALSE
    /\ completedTests = 0
    /\ progressShown = 0
    /\ totalTests = 0
    /\ calls = [t \in Tasks |-> [withRepo |-> 0, withoutRepo |-> 0, progress |-> 0]]
    /\ sent = <<>>

Init ==
    /\ pkgs \in UnitLists
    /\ concurrency \in 0..MaxConcurrency
    /\ verbose \in BOOLEAN
    /\ yaml \in SUBSET Names
    /\ InitRun
    /\ InitClass
    /\ InitExec
    /\ InitCli

\* ---------------------------------------------------------------- Run
\* Run / RunFromPackageList up to the call of analyzeResults:
\* r.totalTests = int64(len(packages)); results, sem and wg are created;
\* for every entry wg.Add(1) and go func(packageName); the closing goroutine is
\* started.  The goroutines have not been scheduled yet.
RunBegin ==
    /\ apc = "run"
    /\ totalTests' = Len(pkgs)
    /\ wg' = Len(pkgs)
    /\ tpc' = [t \in Tasks |-> "acquire"]
    /\ apc' = "range"
    /\ UNCHANGED <<pkgs, concurrency, verbose, withRepoResult, withoutRepoResult,
                   sem, results, closed, completedTests, progressShown, yaml,
                   calls, sent, packageResults, visited, verdict, regressions, hungTests,
                   successfulPackages, failedPackages, skippedPackages,
                   successCount, failureCount, skippedCount, files, retErr, exitCode>>
    /\ UNCHANGED <<execVars, cliVars>>

\* the loop over the packages has run: every unit goroutine and the closing
\* goroutine have been started
Launched == Tasks # {} /\ \A t \in Tasks : tpc[t] # "unstarted"

\* close(results) without waiting for the unit goroutines
CloseResultsNoWait ==
    /\ Launched
    /\ ~closed
    /\ closed' = TRUE
    /\ UNCHANGED <<pkgs, concurrency, verbose, tpc, withRepoResult, withoutRepoResult,
                   sem, wg, results, completedTests, progressShown, totalTests, yaml, calls, sent>>
    /\ UNCHANGED <<classVars, execVars, cliVars>>

\* go func() { wg.Wait(); close(results) }()
CloseResults ==
    /\ Launched
    /\ ~closed
    /\ wg = 0
    /\ closed' = TRUE
    /\ UNCHANGED <<pkgs, concurrency, verbose, tpc, withRepoResult, withoutRepoResult,
                   sem, wg, results, completedTests, progressShown, totalTests, yaml, calls, sent>>
    /\ UNCHANGED <<classVars, execVars, cliVars>>

\* ---------------------------------------------------------------- unit goroutine
\* an admission test that is off by one
SemCanAcquireOffByOne == concurrency - sem >= 0

\* semaphore.Weighted.Acquire(ctx, 1): succeeds when size - cur >= 1
SemCanAcquire == concurrency - sem >= 1

\* sem.Acquire(ctx, 1); the goroutine then calls TestPackage(packageName, true, ...)
Acquire(t) ==
    /\ tpc[t] = "acquire"
    /\ SemCanAcquire
    /\ sem' = sem + 1
    /\ tpc' = [tpc EXCEPT ![t] = "testWithRepo"]
    /\ calls' = [calls EXCEPT ![t].withRepo = @ + 1]
    /\ UNCHANGED <<pkgs, concurrency, verbose, withRepoResult, withoutRepoResult,
                   wg, results, closed, completedTests, progressShown, totalTests, yaml, sent>>
    /\ UNCHANGED <<classVars, execVars, cliVars>>

\* the second trial decided on failure alone, skipped units included
NeedsWithoutRepoIgnoringSkipped(r) == ~r.Success

\* Only test without repo if test with repo failed and wasn't skipped
NeedsWithoutRepo(r) == ~r.Success /\ ~r.Skipped

\* the with-repo result of a skipped unit kept off the channel
WithRepoReturnsSkippedUnsent(t, err) ==
    /\ tpc[t] = "testWithRepo"
    /\ Len(results) < ResultsCap
    /\ LET r == TestResult(pkgs[t], TRUE, err)
       IN /\ withRepoResult' = [withRepoResult EXCEPT ![t] = r]
          /\ IF r.Skipped
             THEN results' = results /\ sent' = sent
             ELSE /\ results' = Append(results, r)
                  /\ sent' = Append(sent, [task |-> t, result |-> r])
          /\ IF NeedsWithoutRepo(r)
             THEN /\ tpc' = [tpc EXCEPT ![t] = "testWithoutRepo"]
                  /\ calls' = [calls EXCEPT ![t].withoutRepo = @ + 1]
             ELSE /\ tpc' = [tpc EXCEPT ![t] = "updateProgress"]
                  /\ calls' = calls
    /\ UNCHANGED <<pkgs, concurrency, verbose, withoutRepoResult, sem, wg,
                   closed, completedTests, progressShown, totalTests, yaml>>
    /\ UNCHANGED classVars

\* the second trial entered before the with-repo result is on the channel
WithRepoReturnsUnsentBeforeSecond(t, err) ==
    /\ tpc[t] = "testWithRepo"
    /\ Len(results) < ResultsCap
    /\ LET r == TestResult(pkgs[t], TRUE, err)
       IN /\ withRepoResult' = [withRepoResult EXCEPT ![t] = r]
          /\ IF NeedsWithoutRepo(r)
             THEN /\ results' = results /\ sent' = sent
                  /\ tpc' = [tpc EXCEPT ![t] = "testWithoutRepo"]
                  /\ calls' = [calls EXCEPT ![t].withoutRepo = @ + 1]
             ELSE /\ results' = Append(results, r)
                  /\ sent' = Append(sent, [task |-> t, result |-> r])
                  /\ tpc' = [tpc EXCEPT ![t] = "updateProgress"]
                  /\ calls' = calls
    /\ UNCHANGED <<pkgs, concurrency, verbose, withoutRepoResult, sem, wg,
                   closed, completedTests, progressShown, totalTests, yaml>>
    /\ UNCHANGED classVars

\* The goroutine from the return of TestPackage(packageName, true, ...) on:
\* withRepoResult is built and sent (results <- withRepoResult), then the
\* decision to run the second trial.
WithRepoReturns(t, err) ==
    /\ tpc[t] = "testWithRepo"
    /\ Len(results) < ResultsCap
    /\ LET r == TestResult(pkgs[t], TRUE, err)
       IN /\ withRepoResult' = [withRepoResult EXCEPT ![t] = r]
          /\ results' = Append(results, r)
          /\ sent' = Append(sent, [task |-> t, result |-> r])
          /\ IF NeedsWithoutRepo(r)
             THEN /\ tpc' = [tpc EXCEPT ![t] = "testWithoutRepo"]
                  /\ calls' = [calls EXCEPT ![t].withoutRepo = @ + 1]
             ELSE /\ tpc' = [tpc EXCEPT ![t] = "updateProgress"]
                  /\ calls' = calls
    /\ UNCHANGED <<pkgs, concurrency, verbose, withoutRepoResult, sem, wg,
                   closed, completedTests, progressShown, totalTests, yaml>>
    /\ UNCHANGED classVars

\* the second result sent without the ErrPackageYAMLNotFound guard
WithoutRepoReturnsUnguarded(t, err) ==
    /\ tpc[t] = "testWithoutRepo"
    /\ Len(results) < ResultsCap
    /\ LET r == TestResult(pkgs[t], FALSE, err)
       IN /\ withoutRepoResult' = [withoutRepoResult EXCEPT ![t] = r]
          /\ results' = Append(results, r)
          /\ sent' = Append(sent, [task |-> t, result |-> r])
    /\ tpc' = [tpc EXCEPT ![t] = "updateProgress"]
    /\ UNCHANGED <<pkgs, concurrency, verbose, withRepoResult, sem, wg,
                   closed, completedTests, progressShown, totalTests, yaml, calls>>
    /\ UNCHANGED classVars

\* the ErrPackageYAMLNotFound guard returning without the call of updateProgress
WithoutRepoReturnsNoProgress(t, err) ==
    /\ tpc[t] = "testWithoutRepo"
    /\ LET r == TestResult(pkgs[t], FALSE, err)
       IN /\ withoutRepoResult' = [withoutRepoResult EXCEPT ![t] = r]
          /\ IF err = ErrPackageYAMLNotFound
             THEN /\ results' = results /\ sent' = sent
                  /\ tpc' = [tpc EXCEPT ![t] = "release"]
             ELSE /\ Len(results) < ResultsCap
                  /\ results' = Append(results, r)
                  /\ sent' = Append(sent, [task |-> t, result |-> r])
                  /\ tpc' = [tpc EXCEPT ![t] = "updateProgress"]
    /\ UNCHANGED <<pkgs, concurrency, verbose, withRepoResult, sem, wg,
                   closed, completedTests, progressShown, totalTests, yaml, calls>>
    /\ UNCHANGED classVars

\* The goroutine from the return of TestPackage(packageName, false, ...) on:
\* if errors.Is(err, ErrPackageYAMLNotFound) { r.updateProgress(); return }
\* results <- TestResult{Package: packageName, WithRepo: false, ...}
WithoutRepoReturns(t, err) ==
    /\ tpc[t] = "testWithoutRepo"
    /\ LET r == TestResult(pkgs[t], FALSE, err)
       IN /\ withoutRepoResult' = [withoutRepoResult EXCEPT ![t] = r]
          /\ IF err = ErrPackageYAMLNotFound
             THEN results' = results /\ sent' = sent
             ELSE /\ Len(results) < ResultsCap
                  /\ results' = Append(results, r)
                  /\ sent' = Append(sent, [task |-> t, result |-> r])
    /\ tpc' = [tpc EXCEPT ![t] = "updateProgress"]
    /\ UNCHANGED <<pkgs, concurrency, verbose, withRepoResult, sem, wg,
                   closed, completedTests, progressShown, totalTests, yaml, calls>>
    /\ UNCHANGED classVars

\* The first trial of a unit, TestPackage taken as one step.
TestWithRepo(t) ==
    /\ \E err \in TestPackageErrs(pkgs[t] \in yaml) : WithRepoReturns(t, err)
    /\ UNCHANGED <<execVars, cliVars>>

\* The second trial of a unit, TestPackage taken as one step.
TestWithoutRepo(t) ==
    /\ \E err \in TestPackageErrs(pkgs[t] \in yaml) : WithoutRepoReturns(t, err)
    /\ UNCHANGED <<execVars, cliVars>>

\* the guard of updateProgress with > in place of >=
UpdateProgressLoadPastTotal(t) ==
    /\ tpc[t] = "updateProgress"
    /\ tpc' = [tpc EXCEPT ![t] = IF completedTests > totalTests
                                 THEN "release" ELSE "progressAdd"]
    /\ calls' = [calls EXCEPT ![t].progress = @ + 1]
    /\ UNCHANGED <<pkgs, concurrency, verbose, withRepoResult, withoutRepoResult,
                   sem, wg, results, closed, completedTests, progressShown, totalTests,
                   yaml, sent>>
    /\ UNCHANGED <<classVars, execVars, cliVars>>

\* updateProgress: current := atomic.LoadInt64(&r.completedTests);
\* if current >= total { return }
UpdateProgressLoad(t) ==
    /\ tpc[t] = "updateProgress"
    /\ tpc' = [tpc EXCEPT ![t] = IF completedTests >= totalTests
                                 THEN "release" ELSE "progressAdd"]
    /\ calls' = [calls EXCEPT ![t].progress = @ + 1]
    /\ UNCHANGED <<pkgs, concurrency, verbose, withRepoResult, withoutRepoResult,
                   sem, wg, results, closed, completedTests, progressShown, totalTests,
                   yaml, sent>>
    /\ UNCHANGED <<classVars, execVars, cliVars>>

\* updateProgress: completed := atomic.AddInt64(&r.completedTests, 1);
\* if r.verbose { return }; otherwise the progress line is printed
UpdateProgressAdd(t) ==
    /\ tpc[t] = "progressAdd"
    /\ completedTests' = completedTests + 1
    /\ progressShown' = IF verbose THEN progressShown ELSE progressShown + 1
    /\ tpc' = [tpc EXCEPT ![t] = "release"]
    /\ UNCHANGED <<pkgs, concurrency, verbose, withRepoResult, withoutRepoResult,
                   sem, wg, results, closed, totalTests, yaml, calls, sent>>
    /\ UNCHANGED <<classVars, execVars, cliVars>>

\* the goroutine ending without the deferred sem.Release(1)
ReleaseKeepsToken(t) ==
    /\ tpc[t] = "release"
    /\ wg' = wg - 1
    /\ tpc' = [tpc EXCEPT ![t] = "finished"]
    /\ UNCHANGED <<pkgs, concurrency, verbose, withRepoResult, withoutRepoResult,
                   sem, results, closed, completedTests, progressShown, totalTests,
                   yaml, calls, sent>>
    /\ UNCHANGED <<classVars, execVars, cliVars>>

\* the deferred calls, in order: sem.Release(1); wg.Done()
Release(t) ==
    /\ tpc[t] = "release"
    /\ sem' = sem - 1
    /\ wg' = wg - 1
    /\ tpc' = [tpc EXCEPT ![t] = "finished"]
    /\ UNCHANGED <<pkgs, concurrency, verbose, withRepoResult, withoutRepoResult,
                   results, closed, completedTests, progressShown, totalTests, yaml, calls, sent>>
    /\ UNCHANGED <<classVars, execVars, cliVars>>

\* The file system changes under the run: a unit's YAML is removed while a
\* TestPackage call on that unit is still to come.
RemoveYaml(n) ==
    /\ n \in yaml
    /\ \E t \in Tasks : pkgs[t] = n /\ tpc[t] \in {"acquire", "testWithRepo", "testWithoutRepo"}
    /\ yaml' = yaml \ {n}
    /\ UNCHANGED schedVars
    /\ UNCHANGED <<classVars, execVars, cliVars>>

\* ---------------------------------------------------------------- analyzeResults
\* keys of the packageResults map
Keys == {n \in Names : packageResults[<<n, TRUE>>] # NoResult
                       \/ packageResults[<<n, FALSE>>] # NoResult}

\* for result := range results { packageResults[result.Package][result.WithRepo] = result }
Receive ==
    /\ apc = "range"
    /\ Len(results) > 0
    /\ LET result == Head(results)
       IN packageResults' =
            [packageResults EXCEPT ![<<result.Package, result.WithRepo>>] = result]
    /\ results' = Tail(results)
    /\ UNCHANGED <<pkgs, concurrency, verbose, tpc, withRepoResult, withoutRepoResult,
                   sem, wg, closed, completedTests, progressShown, totalTests, yaml, calls, sent>>
    /\ UNCHANGED <<apc, visited, verdict, regressions, hungTests,
                   successfulPackages, failedPackages, skippedPackages,
                   successCount, failureCount, skippedCount, files, retErr, exitCode>>
    /\ UNCHANGED <<execVars, cliVars>>

\* the range loop ends when the channel is closed and drained
RangeEnd ==
    /\ apc = "range"
    /\ closed
    /\ Len(results) = 0
    /\ apc' = "classify"
    /\ UNCHANGED <<schedVars, yaml, packageResults, visited, verdict, regressions,
                   hungTests, successfulPackages, failedPackages, skippedPackages,
                   successCount, failureCount, skippedCount, files, retErr, exitCode>>
    /\ UNCHANGED <<execVars, cliVars>>

\* fmt.Sprintf("%s (with repo)", pkg) / fmt.Sprintf("%s (without repo)", pkg)
HungEntry(pkg, withRepo) == <<pkg, IF withRepo THEN " (with repo)" ELSE " (without repo)">>

\* the classification chain without the hung checks
BranchNoHung(withRepoR, hasWithRepo, withoutRepoR, hasWithoutRepo) ==
    IF ~hasWithRepo THEN "Incomplete"
    ELSE IF withRepoR.Skipped THEN "Skipped"
    ELSE IF withRepoR.Success /\ ~hasWithoutRepo THEN "Success"
    ELSE IF ~withRepoR.Success /\ hasWithoutRepo THEN
        (IF withoutRepoR.Success THEN "Regression" ELSE "Failure")
    ELSE IF ~withRepoR.Success /\ ~hasWithoutRepo THEN "IncompleteNoWithout"
    ELSE "NoBranch"

\* the second hang event recorded whenever a without-repo result exists
BranchSecondHangAlways(withRepoR, hasWithRepo, withoutRepoR, hasWithoutRepo) ==
    IF ~hasWithRepo THEN "Incomplete"
    ELSE IF withRepoR.Skipped THEN "Skipped"
    ELSE IF withRepoR.Hung THEN
        (IF hasWithoutRepo THEN "HungBoth" ELSE "HungWithRepo")
    ELSE IF hasWithoutRepo /\ withoutRepoR.Hung THEN "HungWithoutRepo"
    ELSE IF withRepoR.Success /\ ~hasWithoutRepo THEN "Success"
    ELSE IF ~withRepoR.Success /\ hasWithoutRepo THEN
        (IF withoutRepoR.Success THEN "Regression" ELSE "Failure")
    ELSE IF ~withRepoR.Success /\ ~hasWithoutRepo THEN "IncompleteNoWithout"
    ELSE "NoBranch"

\* the success test with the presence of the without-repo result inverted
BranchSuccessNeedsWithoutRepo(withRepoR, hasWithRepo, withoutRepoR, hasWithoutRepo) ==
    IF ~hasWithRepo THEN "Incomplete"
    ELSE IF withRepoR.Skipped THEN "Skipped"
    ELSE IF withRepoR.Hung THEN
        (IF hasWithoutRepo /\ withoutRepoR.Hung THEN "HungBoth" ELSE "HungWithRepo")
    ELSE IF hasWithoutRepo /\ withoutRepoR.Hung THEN "HungWithoutRepo"
    ELSE IF withRepoR.Success /\ hasWithoutRepo THEN "Success"
    ELSE IF ~withRepoR.Success /\ hasWithoutRepo THEN
        (IF withoutRepoR.Success THEN "Regression" ELSE "Failure")
    ELSE IF ~withRepoR.Success /\ ~hasWithoutRepo THEN "IncompleteNoWithout"
    ELSE "NoBranch"

\* the regression test inverted
BranchFailureAsRegression(withRepoR, hasWithRepo, withoutRepoR, hasWithoutRepo) ==
    IF ~hasWithRepo THEN "Incomplete"
    ELSE IF withRepoR.Skipped THEN "Skipped"
    ELSE IF withRepoR.Hung THEN
        (IF hasWithoutRepo /\ withoutRepoR.Hung THEN "HungBoth" ELSE "HungWithRepo")
    ELSE IF hasWithoutRepo /\ withoutRepoR.Hung THEN "HungWithoutRepo"
    ELSE IF withRepoR.Success /\ ~hasWithoutRepo THEN "Success"
    ELSE IF ~withRepoR.Success /\ hasWithoutRepo THEN
        (IF ~withoutRepoR.Success THEN "Regression" ELSE "Failure")
    ELSE IF ~withRepoR.Success /\ ~hasWithoutRepo THEN "IncompleteNoWithout"
    ELSE "NoBranch"

\* the chain without the test for a hang of the without-repo trial alone
BranchNoWithoutRepoHung(withRepoR, hasWithRepo, withoutRepoR, hasWithoutRepo) ==
    IF ~hasWithRepo THEN "Incomplete"
    ELSE IF withRepoR.Skipped THEN "Skipped"
    ELSE IF withRepoR.Hung THEN
        (IF hasWithoutRepo /\ withoutRepoR.Hung THEN "HungBoth" ELSE "HungWithRepo")
    ELSE IF withRepoR.Success /\ ~hasWithoutRepo THEN "Success"
    ELSE IF ~withRepoR.Success /\ hasWithoutRepo THEN
        (IF withoutRepoR.Success THEN "Regression" ELSE "Failure")
    ELSE IF ~withRepoR.Success /\ ~hasWithoutRepo THEN "IncompleteNoWithout"
    ELSE "NoBranch"

\* a failed with-repo trial without a without-repo result taken as a failure
BranchIncompleteAsFailure(withRepoR, hasWithRepo, withoutRepoR, hasWithoutRepo) ==
    IF ~hasWithRepo THEN "Incomplete"
    ELSE IF withRepoR.Skipped THEN "Skipped"
    ELSE IF withRepoR.Hung THEN
        (IF hasWithoutRepo /\ withoutRepoR.Hung THEN "HungBoth" ELSE "HungWithRepo")
    ELSE IF hasWithoutRepo /\ withoutRepoR.Hung THEN "HungWithoutRepo"
    ELSE IF withRepoR.Success /\ ~hasWithoutRepo THEN "Success"
    ELSE IF ~withRepoR.Success /\ hasWithoutRepo THEN
        (IF withoutRepoR.Success THEN "Regression" ELSE "Failure")
    ELSE IF ~withRepoR.Success /\ ~hasWithoutRepo THEN "Failure"
    ELSE "NoBranch"

\* the skipped test made after the outcome tests
BranchSkippedLast(withRepoR, hasWithRepo, withoutRepoR, hasWithoutRepo) ==
    IF ~hasWithRepo THEN "Incomplete"
    ELSE IF withRepoR.Hung THEN
        (IF hasWithoutRepo /\ withoutRepoR.Hung THEN "HungBoth" ELSE "HungWithRepo")
    ELSE IF hasWithoutRepo /\ withoutRepoR.Hung THEN "HungWithoutRepo"
    ELSE IF withRepoR.Success /\ ~hasWithoutRepo THEN "Success"
    ELSE IF ~withRepoR.Success /\ hasWithoutRepo THEN
        (IF withoutRepoR.Success THEN "Regression" ELSE "Failure")
    ELSE IF withRepoR.Skipped THEN "Skipped"
    ELSE IF ~withRepoR.Success /\ ~hasWithoutRepo THEN "IncompleteNoWithout"
    ELSE "NoBranch"

\* The branch of the classification loop body taken for one map entry.
Branch(withRepoR, hasWithRepo, withoutRepoR, hasWithoutRepo) ==
    IF ~hasWithRepo THEN "Incomplete"
    ELSE IF withRepoR.Skipped THEN "Skipped"
    ELSE IF withRepoR.Hung THEN
        (IF hasWithoutRepo /\ withoutRepoR.Hung THEN "HungBoth" ELSE "HungWithRepo")
    ELSE IF hasWithoutRepo /\ withoutRepoR.Hung THEN "HungWithoutRepo"
    ELSE IF withRepoR.Success /\ ~hasWithoutRepo THEN "Success"
    ELSE IF ~withRepoR.Success /\ hasWithoutRepo THEN
        (IF withoutRepoR.Success THEN "Regression" ELSE "Failure")
    ELSE IF ~withRepoR.Success /\ ~hasWithoutRepo THEN "IncompleteNoWithout"
    ELSE "NoBranch"

\* a range that may yield a key it has already yielded
ToVisitAgain == Keys

\* the keys the range over packageResults has still to yield
ToVisit == Keys \ visited

\* one iteration of: for pkg, results := range packageResults { ... }
ClassifyOne(pkg) ==
    /\ apc = "classify"
    /\ pkg \in ToVisit
    /\ LET withRepoR == packageResults[<<pkg, TRUE>>]
           hasWithRepo == withRepoR # NoResult
           withoutRepoR == packageResults[<<pkg, FALSE>>]
           hasWithoutRepo == withoutRepoR # NoResult
           b == Branch(withRepoR, hasWithRepo, withoutRepoR, hasWithoutRepo)
       IN /\ verdict' = [verdict EXCEPT ![pkg] = b]
          /\ skippedCount' = IF b = "Skipped" THEN skippedCount + 1 ELSE skippedCount
          /\ skippedPackages' = IF b = "Skipped" THEN Append(skippedPackages, pkg)
                                ELSE skippedPackages
          /\ hungTests' =
               CASE b = "HungWithRepo" -> Append(hungTests, HungEntry(pkg, TRUE))
                 [] b = "HungBoth" -> Append(Append(hungTests, HungEntry(pkg, TRUE)),
                                             HungEntry(pkg, FALSE))
                 [] b = "HungWithoutRepo" -> Append(hungTests, HungEntry(pkg, FALSE))
                 [] OTHER -> hungTests
          /\ successCount' = IF b = "Success" THEN successCount + 1 ELSE successCount
          /\ successfulPackages' = IF b = "Success" THEN Append(successfulPackages, pkg)
                                   ELSE successfulPackages
          /\ regressions' = IF b = "Regression" THEN Append(regressions, pkg)
                            ELSE regressions
          /\ failureCount' = IF b = "Failure" THEN failureCount + 1 ELSE failureCount
          /\ failedPackages' = IF b = "Failure" THEN Append(failedPackages, pkg)
                               ELSE failedPackages
    /\ visited' = visited \cup {pkg}
    /\ UNCHANGED <<schedVars, yaml, apc, packageResults, files, retErr, exitCode>>
    /\ UNCHANGED <<execVars, cliVars>>

\* the return value with the hung test checked before the regressions
AnalyzeReturnHungFirst(regs, hung) ==
    IF Len(hung) > 0 THEN [msg |-> "found %d hung tests", n |-> Len(hung)]
    ELSE IF Len(regs) > 0 THEN [msg |-> "found %d regressions", n |-> Len(regs)]
    ELSE NilRet

\* the value analyzeResults returns
AnalyzeReturn(regs, hung) ==
    IF Len(regs) > 0 THEN [msg |-> "found %d regressions", n |-> Len(regs)]
    ELSE IF Len(hung) > 0 THEN [msg |-> "found %d hung tests", n |-> Len(hung)]
    ELSE NilRet

\* ---------------------------------------------------------------- result files
\* A string is a sequence of pieces: a package name is one piece, a hung entry
\* is the name followed by " (with repo)" or " (without repo)", and "\n" is a
\* piece of its own.
NL == "\n"

\* a package name as a string
NameLine(pkg) == <<pkg>>

\* a list of package names as a list of strings
NameLines(q) == [i \in 1..Len(q) |-> NameLine(q[i])]

\* the entries written one after the other with nothing between them
RECURSIVE JoinLinesNoSeparator(_)
JoinLinesNoSeparator(q) ==
    IF Len(q) = 0 THEN <<>>
    ELSE Head(q) \o JoinLinesNoSeparator(Tail(q))

\* strings.Join(packages, "\n")
RECURSIVE JoinLines(_)
JoinLines(q) ==
    IF Len(q) = 0 THEN <<>>
    ELSE IF Len(q) = 1 THEN Head(q)
    ELSE Head(q) \o <<NL>> \o JoinLines(Tail(q))

\* content := strings.Join(packages, "\n"); if content != "" { content += "\n" }
FileContent(q) ==
    LET content == JoinLines(q)
    IN IF content # <<>> THEN content \o <<NL>> ELSE content

\* writeResultFiles: the content of the five files
WriteResultFiles(successful, failed, regs, hung, skipped) ==
    [successful |-> FileContent(NameLines(successful)),
     failed |-> FileContent(NameLines(failed)),
     regressions |-> FileContent(NameLines(regs)),
     hung |-> FileContent(hung),
     skipped |-> FileContent(NameLines(skipped))]

\* the white space pieces: "\n" and " " (a blank or a tab)
IsSpace(c) == c \in {NL, " "}

\* strings.TrimSpace: the white space at both ends goes
RECURSIVE TrimSpace(_)
TrimSpace(c) ==
    IF Len(c) = 0 THEN c
    ELSE IF IsSpace(Head(c)) THEN TrimSpace(Tail(c))
    ELSE IF IsSpace(c[Len(c)]) THEN TrimSpace(SubSeq(c, 1, Len(c) - 1))
    ELSE c

\* strings.Split(c, "\n"): the strings between the newlines, n newlines give n+1 strings
RECURSIVE Split(_)
Split(c) ==
    IF \A i \in 1..Len(c) : c[i] # NL THEN <<c>>
    ELSE LET k == CHOOSE i \in 1..Len(c) : c[i] = NL /\ \A j \in 1..(i - 1) : c[j] # NL
         IN <<SubSeq(c, 1, k - 1)>> \o Split(SubSeq(c, k + 1, Len(c)))

\* the lines of a result file as TestWriteResultFiles reads them:
\* strings.Split(strings.TrimSpace(string(content)), "\n"), a single empty
\* string standing for no line
ReadLines(content) ==
    LET lines == Split(TrimSpace(content))
    IN IF lines = << <<>> >> THEN <<>> ELSE lines

\* after the loop: writeResultFiles, summary, return
AnalyzeFinish ==
    /\ apc = "classify"
    /\ visited = Keys
    /\ files' = <<WriteResultFiles(successfulPackages, failedPackages, regressions,
                                   hungTests, skippedPackages)>>
    /\ retErr' = AnalyzeReturn(regressions, hungTests)
    /\ apc' = "returned"
    /\ UNCHANGED <<schedVars, yaml, packageResults, visited, verdict, regressions,
                   hungTests, successfulPackages, failedPackages, skippedPackages,
                   successCount, failureCount, skippedCount, exitCode>>
    /\ UNCHANGED <<execVars, cliVars>>

\* main: if err := cmd.Execute(); err != nil { ...; os.Exit(1) }
ExitStatus(err) == IF err # NilRet THEN 1 ELSE 0

MainExit ==
    /\ apc = "returned"
    /\ exitCode' = ExitStatus(retErr)
    /\ apc' = "exited"
    /\ UNCHANGED <<schedVars, yaml, packageResults, visited, verdict, regressions,
                   hungTests, successfulPackages, failedPackages, skippedPackages,
                   successCount, failureCount, skippedCount, files, retErr>>
    /\ UNCHANGED <<execVars, cliVars>>

\* ---------------------------------------------------------------- TestPackage
\* The unit goroutine t is inside a TestPackage call.
InCall(t) == tpc[t] \in {"testWithRepo", "testWithoutRepo"}

notExec == <<schedVars, classVars, yaml, cliVars>>

\* the existence check made after the temporary directory has been created
ExecStatAfterMkdir(t) ==
    /\ InCall(t)
    /\ epc = "idle"
    /\ IF pkgs[t] \in yaml
       THEN epc' = "mkdirTemp" /\ execErr' = execErr /\ tempDir' = tempDir
       ELSE epc' = "return" /\ execErr' = ErrPackageYAMLNotFound /\ tempDir' = "exists"
    /\ UNCHANGED <<logFile, logMarker, ctxTimer, proc, exitStatus,
                   waiter, done, killed>>
    /\ UNCHANGED notExec

\* if _, err := os.Stat(yamlFilePath); os.IsNotExist(err) { return ErrPackageYAMLNotFound }
ExecStat(t) ==
    /\ InCall(t)
    /\ epc = "idle"
    /\ IF pkgs[t] \in yaml
       THEN epc' = "mkdirTemp" /\ execErr' = execErr
       ELSE epc' = "return" /\ execErr' = ErrPackageYAMLNotFound
    /\ UNCHANGED <<tempDir, logFile, logMarker, ctxTimer, proc, exitStatus,
                   waiter, done, killed>>
    /\ UNCHANGED notExec

\* tempDir, err := os.MkdirTemp(...); if err != nil { return ... }
\* defer os.RemoveAll(tempDir)
ExecMkdirTemp ==
    /\ epc = "mkdirTemp"
    /\ \E ok \in BOOLEAN :
          IF ok THEN tempDir' = "exists" /\ epc' = "createLog" /\ execErr' = execErr
          ELSE tempDir' = tempDir /\ epc' = "return" /\ execErr' = ErrTempDir
    /\ UNCHANGED <<logFile, logMarker, ctxTimer, proc, exitStatus, waiter, done, killed>>
    /\ UNCHANGED notExec

\* the log file error returned without the deferred os.RemoveAll
ExecCreateLogNoRemove ==
    /\ epc = "createLog"
    /\ \E ok \in BOOLEAN :
          IF ok THEN /\ logFile' = "open" /\ ctxTimer' = "armed"
                     /\ epc' = "start" /\ execErr' = execErr
          ELSE /\ logFile' = logFile /\ ctxTimer' = ctxTimer
               /\ epc' = "return" /\ execErr' = ErrLogFile
    /\ UNCHANGED <<tempDir, logMarker, proc, exitStatus, waiter, done, killed>>
    /\ UNCHANGED notExec

\* logFile, err := os.Create(logFilePath); if err != nil { return ... }
\* defer logFile.Close(); the command is built;
\* ctx, cancel := context.WithTimeout(context.Background(), m.hangTimeout); defer cancel()
ExecCreateLog ==
    /\ epc = "createLog"
    /\ \E ok \in BOOLEAN :
          IF ok THEN /\ logFile' = "open" /\ ctxTimer' = "armed"
                     /\ epc' = "start" /\ execErr' = execErr
          ELSE /\ logFile' = logFile /\ ctxTimer' = ctxTimer
               /\ epc' = "deferRemove" /\ execErr' = ErrLogFile
    /\ UNCHANGED <<tempDir, logMarker, proc, exitStatus, waiter, done, killed>>
    /\ UNCHANGED notExec

\* if err := cmd.Start(); err != nil { return ... }
\* done := make(chan error, 1); go func() { done <- cmd.Wait() }()
ExecStart ==
    /\ epc = "start"
    /\ \/ /\ proc' = "running"
          /\ exitStatus' \in {"0", "1", "never"}
          /\ waiter' = "waiting"
          /\ epc' = "select"
          /\ execErr' = execErr
       \/ /\ UNCHANGED <<proc, exitStatus, waiter>>
          /\ epc' = "deferCancel"
          /\ execErr' = ErrStart
    /\ UNCHANGED <<tempDir, logFile, logMarker, ctxTimer, done, killed>>
    /\ UNCHANGED notExec

\* the make process ends on its own
ProcExit ==
    /\ proc = "running"
    /\ exitStatus # "never"
    /\ proc' = "exited"
    /\ UNCHANGED <<epc, tempDir, logFile, logMarker, ctxTimer, exitStatus,
                   waiter, done, killed, execErr>>
    /\ UNCHANGED notExec

\* m.hangTimeout elapses: ctx.Done() becomes ready
TimerFire ==
    /\ ctxTimer = "armed"
    /\ ctxTimer' = "fired"
    /\ UNCHANGED <<epc, tempDir, logFile, logMarker, proc, exitStatus,
                   waiter, done, killed, execErr>>
    /\ UNCHANGED notExec

\* the error cmd.Wait() returns for a terminated process
WaitErr(p, status) == IF p = "exited" /\ status = "0" THEN Nil ELSE ErrExit

\* go func() { done <- cmd.Wait() }(): Wait returns once the process has ended
WaiterDeliver ==
    /\ waiter = "waiting"
    /\ proc \in {"exited", "killed"}
    /\ Len(done) < 1
    /\ done' = Append(done, WaitErr(proc, exitStatus))
    /\ proc' = "reaped"
    /\ waiter' = "ended"
    /\ UNCHANGED <<epc, tempDir, logFile, logMarker, ctxTimer, exitStatus,
                   killed, execErr>>
    /\ UNCHANGED notExec

\* select { case err := <-done: if err != nil { return fmt.Errorf(...) }; return nil
SelectDone ==
    /\ epc = "select"
    /\ Len(done) > 0
    /\ execErr' = IF Head(done) # Nil THEN ErrExit ELSE Nil
    /\ done' = Tail(done)
    /\ epc' = "deferCancel"
    /\ UNCHANGED <<tempDir, logFile, logMarker, ctxTimer, proc, exitStatus,
                   waiter, killed>>
    /\ UNCHANGED notExec

\* select { ... case <-ctx.Done():
SelectTimeout ==
    /\ epc = "select"
    /\ ctxTimer = "fired"
    /\ epc' = "kill"
    /\ UNCHANGED <<tempDir, logFile, logMarker, ctxTimer, proc, exitStatus,
                   waiter, done, killed, execErr>>
    /\ UNCHANGED notExec

\* the timeout branch without the call of cmd.Process.Kill()
ExecKillOmitted ==
    /\ epc = "kill"
    /\ epc' = "drain"
    /\ UNCHANGED <<tempDir, logFile, logMarker, ctxTimer, proc, exitStatus,
                   waiter, done, killed, execErr>>
    /\ UNCHANGED notExec

\* if cmd.Process != nil { cmd.Process.Kill() }
ExecKill ==
    /\ epc = "kill"
    /\ proc' = IF proc = "running" THEN "killed" ELSE proc
    /\ killed' = TRUE
    /\ epc' = "drain"
    /\ UNCHANGED <<tempDir, logFile, logMarker, ctxTimer, exitStatus,
                   waiter, done, execErr>>
    /\ UNCHANGED notExec

\* the timeout branch going on without receiving from done
ExecDrainSkipped ==
    /\ epc = "drain"
    /\ epc' = "marker"
    /\ UNCHANGED <<tempDir, logFile, logMarker, ctxTimer, proc, exitStatus,
                   waiter, done, killed, execErr>>
    /\ UNCHANGED notExec

\* <-done  (wait for the process to actually exit)
ExecDrain ==
    /\ epc = "drain"
    /\ Len(done) > 0
    /\ done' = Tail(done)
    /\ epc' = "marker"
    /\ UNCHANGED <<tempDir, logFile, logMarker, ctxTimer, proc, exitStatus,
                   waiter, killed, execErr>>
    /\ UNCHANGED notExec

\* fmt.Fprintf(logFile, "\n\n=== TEST HUNG - KILLED AFTER %v ===\n", ...); return ErrTestHung
ExecMarker ==
    /\ epc = "marker"
    /\ logMarker' = (logFile = "open")
    /\ execErr' = ErrTestHung
    /\ epc' = "deferCancel"
    /\ UNCHANGED <<tempDir, logFile, ctxTimer, proc, exitStatus, waiter, done, killed>>
    /\ UNCHANGED notExec

\* deferred, last registered first: cancel()
DeferCancel ==
    /\ epc = "deferCancel"
    /\ ctxTimer' = "cancelled"
    /\ epc' = "deferClose"
    /\ UNCHANGED <<tempDir, logFile, logMarker, proc, exitStatus, waiter, done,
                   killed, execErr>>
    /\ UNCHANGED notExec

\* deferred: logFile.Close()
DeferClose ==
    /\ epc = "deferClose"
    /\ logFile' = "closed"
    /\ epc' = "deferRemove"
    /\ UNCHANGED <<tempDir, logMarker, ctxTimer, proc, exitStatus, waiter, done,
                   killed, execErr>>
    /\ UNCHANGED notExec

\* deferred: os.RemoveAll(tempDir)
DeferRemove ==
    /\ epc = "deferRemove"
    /\ tempDir' = "removed"
    /\ epc' = "return"
    /\ UNCHANGED <<logFile, logMarker, ctxTimer, proc, exitStatus, waiter, done,
                   killed, execErr>>
    /\ UNCHANGED notExec

\* the call's frame is gone once the caller has the error
ExecReset ==
    /\ epc' = "idle"
    /\ tempDir' = "none"
    /\ logFile' = "none"
    /\ logMarker' = FALSE
    /\ ctxTimer' = "none"
    /\ proc' = "none"
    /\ exitStatus' = "none"
    /\ waiter' = "none"
    /\ done' = <<>>
    /\ killed' = FALSE
    /\ execErr' = NoErr
    /\ UNCHANGED cliVars

\* err := r.melange.TestPackage(packageName, true, r.apkRepo) and what follows it
ExecTestWithRepo(t) ==
    /\ epc = "return"
    /\ WithRepoReturns(t, execErr)
    /\ ExecReset

\* err := r.melange.TestPackage(packageName, false, r.apkRepo) and what follows it
ExecTestWithoutRepo(t) ==
    /\ epc = "return"
    /\ WithoutRepoReturns(t, execErr)
    /\ ExecReset

\* ---------------------------------------------------------------- Spec
Next ==
    \/ RunBegin
    \/ CloseResults
    \/ \E t \in Tasks : Acquire(t)
    \/ \E t \in Tasks : TestWithRepo(t)
    \/ \E t \in Tasks : TestWithoutRepo(t)
    \/ \E t \in Tasks : UpdateProgressLoad(t)
    \/ \E t \in Tasks : UpdateProgressAdd(t)
    \/ \E t \in Tasks : Release(t)
    \/ \E n \in Names : RemoveYaml(n)
    \/ Receive
    \/ RangeEnd
    \/ \E pkg \in Names : ClassifyOne(pkg)
    \/ AnalyzeFinish
    \/ MainExit

Spec == Init /\ [][Next]_vars

\* ---------------------------------------------------------------- ExecSpec
\* One unit, one token: the run of a single unit goroutine, TestPackage unfolded.
ExecInit ==
    /\ pkgs \in {l \in UnitLists : Len(l) = 1}
    /\ concurrency = 1
    /\ verbose \in BOOLEAN
    /\ yaml \in SUBSET Names
    /\ InitRun
    /\ InitClass
    /\ InitExec
    /\ InitCli

ExecStep ==
    \/ \E t \in Tasks : ExecStat(t)
    \/ ExecMkdirTemp
    \/ ExecCreateLog
    \/ ExecStart
    \/ SelectDone
    \/ SelectTimeout
    \/ ExecKill
    \/ ExecDrain
    \/ ExecMarker
    \/ DeferCancel
    \/ DeferClose
    \/ DeferRemove

ExecNext ==
    \/ RunBegin
    \/ CloseResults
    \/ \E t \in Tasks : Acquire(t)
    \/ ExecStep
    \/ ProcExit
    \/ TimerFire
    \/ WaiterDeliver
    \/ \E t \in Tasks : ExecTestWithRepo(t)
    \/ \E t \in Tasks : ExecTestWithoutRepo(t)
    \/ \E t \in Tasks : UpdateProgressLoad(t)
    \/ \E t \in Tasks : UpdateProgressAdd(t)
    \/ \E t \in Tasks : Release(t)
    \/ \E n \in Names : RemoveYaml(n)
    \/ Receive
    \/ RangeEnd
    \/ \E pkg \in Names : ClassifyOne(pkg)
    \/ AnalyzeFinish
    \/ MainExit

ExecSpec == ExecInit /\ [][ExecNext]_vars

\* The Go scheduler runs every runnable goroutine, the timer fires after
\* m.hangTimeout, and a killed process ends: the steps of the goroutine inside
\* TestPackage, of the timer and of the waiter are taken when they stay enabled.
ExecFairSpec ==
    /\ ExecInit
    /\ [][ExecNext]_vars
    /\ WF_vars(ExecStep)
    /\ WF_vars(TimerFire)
    /\ WF_vars(WaiterDeliver)

\* ---------------------------------------------------------------- ClassSpec
\* analyzeResults on its own: it is handed a channel that already holds any
\* sequence of TestResult values and has been closed.
Outcomes == {Nil, ErrExit, ErrTestHung, ErrPackageYAMLNotFound}

Trials == {TestResult(n, w, e) : n \in Names, w \in BOOLEAN, e \in Outcomes}

Streams == UNION {[1..k -> Trials] : k \in 0..MaxStream}

ClassInit ==
    /\ pkgs = <<>>
    /\ concurrency = 1
    /\ verbose = FALSE
    /\ yaml = {}
    /\ tpc = <<>> /\ withRepoResult = <<>> /\ withoutRepoResult = <<>>
    /\ sem = 0 /\ wg = 0
    /\ results \in Streams
    /\ closed = TRUE
    /\ completedTests = 0 /\ progressShown = 0 /\ totalTests = 0
    /\ calls = <<>>
    /\ sent = [i \in 1..Len(results) |-> [task |-> 0, result |-> results[i]]]
    /\ apc = "range"
    /\ packageResults = [k \in Names \X BOOLEAN |-> NoResult]
    /\ visited = {}
    /\ verdict = [n \in Names |-> "none"]
    /\ regressions = <<>> /\ hungTests = <<>> /\ successfulPackages = <<>>
    /\ failedPackages = <<>> /\ skippedPackages = <<>>
    /\ successCount = 0 /\ failureCount = 0 /\ skippedCount = 0
    /\ files = <<>>
    /\ retErr = NoRet
    /\ exitCode = -1
    /\ InitExec
    /\ InitCli

ClassNext ==
    \/ Receive
    \/ RangeEnd
    \/ \E pkg \in Names : ClassifyOne(pkg)
    \/ AnalyzeFinish

ClassSpec == ClassInit /\ [][ClassNext]_vars

\* ---------------------------------------------------------------- ProgressSpec
\* updateProgress on its own: a runner with any counters 0 <= completedTests <=
\* totalTests, and one or two goroutines that call updateProgress, each
\* possibly several times.
ProgressInit ==
    /\ pkgs \in UnitLists
    /\ concurrency = Len(pkgs)
    /\ verbose \in BOOLEAN
    /\ yaml = {}
    /\ tpc = [t \in Tasks |-> "updateProgress"]
    /\ withRepoResult = [t \in Tasks |-> NoResult]
    /\ withoutRepoResult = [t \in Tasks |-> NoResult]
    /\ sem = 0 /\ wg = 0
    /\ results = <<>>
    /\ closed = FALSE
    /\ totalTests \in 0..MaxTotal
    /\ completedTests \in 0..totalTests
    /\ progressShown = 0
    /\ calls = [t \in Tasks |-> [withRepo |-> 0, withoutRepo |-> 0, progress |-> 0]]
    /\ sent = <<>>
    /\ InitClass
    /\ InitExec
    /\ InitCli

\* the caller has returned from updateProgress and calls it again
ProgressCallAgain(t) ==
    /\ tpc[t] = "release"
    /\ calls[t].progress < MaxCalls
    /\ tpc' = [tpc EXCEPT ![t] = "updateProgress"]
    /\ UNCHANGED <<pkgs, concurrency, verbose, withRepoResult, withoutRepoResult,
                   sem, wg, results, closed, completedTests, progressShown, totalTests,
                   yaml, calls, sent>>
    /\ UNCHANGED <<classVars, execVars, cliVars>>

ProgressNext ==
    \/ \E t \in Tasks : UpdateProgressLoad(t)
    \/ \E t \in Tasks : UpdateProgressAdd(t)
    \/ \E t \in Tasks : ProgressCallAgain(t)

ProgressSpec == ProgressInit /\ [][ProgressNext]_vars

\* ================================================================ claims
InSeq(x, q) == \E i \in 1..Len(q) : q[i] = x
Count(x, q) == Cardinality({i \in 1..Len(q) : q[i] = x})
Analyzed == apc \in {"returned", "exited"}

\* outcome kinds of a result
IsFailure(r) == r # NoResult /\ ~r.Success /\ ~r.Hung /\ ~r.Skipped
IsHung(r) == r # NoResult /\ r.Hung
IsSuccess(r) == r # NoResult /\ r.Success
IsSkipped(r) == r # NoResult /\ r.Skipped

\* the goroutine t has its first result and has taken the decision on the second trial
Decided(t) == withRepoResult[t] # NoResult
SentBy(t, withRepo) ==
    \E i \in 1..Len(sent) : sent[i].task = t /\ sent[i].result.WithRepo = withRepo

\* C1: once analyzeResults has classified the map, a unit is listed in
\* regressions if and only if its with-repo result is a failure that is neither
\* hung nor skipped and its without-repo result is present, not hung and a success.
C1_RegressionIff ==
    Analyzed =>
        \A n \in Names :
            LET o == packageResults[<<n, TRUE>>]
                b == packageResults[<<n, FALSE>>]
            IN (InSeq(n, regressions) /\ verdict[n] = "Regression")
                  <=> (IsFailure(o) /\ b # NoResult /\ ~b.Hung /\ b.Success)

C1_Witness ==
    /\ Analyzed
    /\ \E n \in Names : InSeq(n, regressions) /\ IsFailure(packageResults[<<n, TRUE>>])

\* C2 (as stated): each unit goroutine makes 0 or 1 without-repo calls, and 1
\* if and only if its with-repo outcome was Failure (not Success, Hung, Skipped).
C2_BaselineIffFailure ==
    \A t \in Tasks :
        /\ calls[t].withoutRepo \in {0, 1}
        /\ Decided(t) => (calls[t].withoutRepo = 1 <=> IsFailure(withRepoResult[t]))

\* C2 (amended): each unit goroutine makes 0 or 1 without-repo calls, and 1 if
\* and only if its with-repo outcome was Failure or Hung.
C2_BaselineIffFailureOrHung ==
    \A t \in Tasks :
        /\ calls[t].withoutRepo \in {0, 1}
        /\ ~Decided(t) => calls[t].withoutRepo = 0
        /\ Decided(t) => (calls[t].withoutRepo = 1
                            <=> (IsFailure(withRepoResult[t]) \/ IsHung(withRepoResult[t])))

C2_Witness ==
    \E t \in Tasks : /\ tpc[t] = "finished"
                     /\ IsHung(withRepoResult[t])
                     /\ calls[t].withoutRepo = 1

\* C3 (as stated): when the with-repo outcome is Failure or Hung the without-repo
\* trial is run and, once it has returned, is on the stream; when it is Success
\* or Skipped no without-repo trial is run.
C3_BaselineRunAndEmitted ==
    \A t \in Tasks :
        Decided(t) =>
            IF IsSuccess(withRepoResult[t]) \/ IsSkipped(withRepoResult[t])
            THEN calls[t].withoutRepo = 0 /\ ~SentBy(t, FALSE)
            ELSE /\ calls[t].withoutRepo = 1
                 /\ withoutRepoResult[t] # NoResult => SentBy(t, FALSE)

\* C3 (amended): when the with-repo outcome is Failure or Hung the without-repo
\* trial is run, and once it has returned it is on the stream unless it returned
\* ErrPackageYAMLNotFound, in which case nothing is sent for it; when the
\* with-repo outcome is Success or Skipped no without-repo trial is run.
C3_BaselineRunEmittedUnlessSkipped ==
    \A t \in Tasks :
        Decided(t) =>
            IF IsSuccess(withRepoResult[t]) \/ IsSkipped(withRepoResult[t])
            THEN calls[t].withoutRepo = 0 /\ ~SentBy(t, FALSE)
            ELSE /\ calls[t].withoutRepo = 1
                 /\ withoutRepoResult[t] # NoResult =>
                        (SentBy(t, FALSE) <=> ~withoutRepoResult[t].Skipped)

C3_Witness ==
    \E t \in Tasks : /\ IsFailure(withRepoResult[t])
                     /\ SentBy(t, FALSE)
                     /\ tpc[t] = "finished"

\* C4: the number of TestPackage calls in progress never exceeds r.concurrency.
C4_RunningAtMostLimit == Running <= concurrency

C4_Witness ==
    /\ concurrency >= 1
    /\ Running = concurrency
    /\ \E t \in Tasks : tpc[t] = "acquire"

\* the last result sent for a map key
LastSent(k) ==
    LET I == {i \in 1..Len(sent) : <<sent[i].result.Package, sent[i].result.WithRepo>> = k}
    IN sent[CHOOSE i \in I : \A j \in I : j <= i].result

\* C5: results is closed only when every unit goroutine has finished; no map
\* entry is classified before the close; and the classification reads a map
\* that holds, for every key, the last result sent for it.
C5_ClassifyAfterClose ==
    /\ closed => \A t \in Tasks : tpc[t] = "finished"
    /\ (visited # {} \/ apc \in {"classify", "returned", "exited"}) =>
          /\ closed
          /\ Len(results) = 0
          /\ \A i \in 1..Len(sent) :
                LET k == <<sent[i].result.Package, sent[i].result.WithRepo>>
                IN packageResults[k] = LastSent(k)

C5_Witness ==
    /\ apc = "classify"
    /\ visited # {}
    /\ \E t \in Tasks : SentBy(t, TRUE) /\ SentBy(t, FALSE)

\* C6: a unit whose with-repo result is Hung is classified Hung whatever the
\* without-repo result: exactly one "(with repo)" hang event is recorded, the
\* unit is in none of regressions, failed, successful, and a "(without repo)"
\* hang event is recorded exactly when the without-repo result is Hung too.
C6_OverlayHungIsHung ==
    Analyzed =>
        \A n \in Names :
            LET o == packageResults[<<n, TRUE>>]
                b == packageResults[<<n, FALSE>>]
            IN IsHung(o) =>
                /\ verdict[n] \in {"HungWithRepo", "HungBoth"}
                /\ Count(HungEntry(n, TRUE), hungTests) = 1
                /\ Count(HungEntry(n, FALSE), hungTests) = (IF IsHung(b) THEN 1 ELSE 0)
                /\ ~InSeq(n, regressions)
                /\ ~InSeq(n, failedPackages)
                /\ ~InSeq(n, successfulPackages)

C6_Witness ==
    /\ Analyzed
    /\ \E n \in Names : /\ IsHung(packageResults[<<n, TRUE>>])
                        /\ IsSuccess(packageResults[<<n, FALSE>>])
                        /\ Count(HungEntry(n, TRUE), hungTests) = 1

\* C7: when the unit's YAML is absent at the existence check of the with-repo
\* trial, TestPackage returns ErrPackageYAMLNotFound with no process, no waiter,
\* no log file and no temporary directory; the goroutine sends the Skipped
\* result and goes on to updateProgress; and a goroutine whose with-repo result
\* is Skipped never makes the without-repo call.
C7_Step ==
    \A t \in Tasks :
        /\ (tpc[t] = "testWithRepo" /\ epc = "idle" /\ pkgs[t] \notin yaml /\ epc' # "idle")
              => /\ epc' = "return"
                 /\ execErr' = ErrPackageYAMLNotFound
                 /\ proc' = "none" /\ waiter' = "none"
                 /\ logFile' = "none" /\ tempDir' = "none"
        /\ (tpc[t] = "testWithRepo" /\ epc = "return"
              /\ execErr = ErrPackageYAMLNotFound /\ tpc'[t] # "testWithRepo")
              => /\ proc = "none" /\ logFile = "none" /\ tempDir = "none"
                 /\ results' = Append(results, TestResult(pkgs[t], TRUE, ErrPackageYAMLNotFound))
                 /\ IsSkipped(withRepoResult'[t])
                 /\ tpc'[t] = "updateProgress"
        /\ IsSkipped(withRepoResult[t])
              => /\ calls[t].withoutRepo = 0
                 /\ calls'[t].withoutRepo = 0
                 /\ tpc'[t] # "testWithoutRepo"

C7_SkippedWithoutSpawn == [][C7_Step]_vars

C7_Witness ==
    \E t \in Tasks : /\ IsSkipped(withRepoResult[t])
                     /\ SentBy(t, TRUE)
                     /\ calls[t].withoutRepo = 0
                     /\ tpc[t] = "finished"

\* C8: a TestPackage call whose process never exits on its own eventually
\* returns ErrTestHung, and when it returns the process has been killed and
\* reaped by the waiter (cmd.Wait has returned), so it is no longer running.
C8_HungReturnsAndReaped ==
    /\ (epc = "select" /\ exitStatus = "never") ~> (epc = "return" /\ execErr = ErrTestHung)
    /\ [](epc = "return" /\ exitStatus = "never"
            => execErr = ErrTestHung /\ killed /\ proc = "reaped" /\ waiter = "ended")

C8_Witness ==
    /\ epc = "return"
    /\ exitStatus = "never"
    /\ execErr = ErrTestHung
    /\ proc = "reaped"

\* C9: analyzeResults returns "found N regressions" (N the number of regressions)
\* exactly when some unit is a Regression, "found N hung tests" (N the number of
\* hang events) exactly when there is a hang event and no Regression, and nil
\* exactly when there is neither.
C9_ReturnDistinguishes ==
    Analyzed =>
        LET R == {n \in Names : verdict[n] = "Regression"}
            H == Len(hungTests)
        IN /\ retErr.msg = "found %d regressions" <=> R # {}
           /\ retErr.msg = "found %d regressions" => retErr.n = Cardinality(R)
           /\ retErr.msg = "found %d hung tests" <=> (H > 0 /\ R = {})
           /\ retErr.msg = "found %d hung tests" => retErr.n = H
           /\ retErr = NilRet <=> (R = {} /\ H = 0)

C9_Witness ==
    /\ Analyzed
    /\ \E n \in Names : verdict[n] = "Regression"
    /\ Len(hungTests) > 0
    /\ retErr.msg = "found %d regressions"

\* C10: whenever the process exits with status 1, some unit was classified Regression.
C10_ExitOneMeansRegression ==
    exitCode = 1 => \E n \in Names : verdict[n] = "Regression"

\* the unit n is in none of the five result lists
InNoList(n) ==
    /\ ~InSeq(n, regressions)
    /\ ~InSeq(n, failedPackages)
    /\ ~InSeq(n, successfulPackages)
    /\ ~InSeq(n, skippedPackages)
    /\ ~InSeq(HungEntry(n, TRUE), hungTests)
    /\ ~InSeq(HungEntry(n, FALSE), hungTests)

\* the three counters count the entries of their lists
CountsMatchLists ==
    /\ successCount = Len(successfulPackages)
    /\ failureCount = Len(failedPackages)
    /\ skippedCount = Len(skippedPackages)

\* C11: a unit whose with-repo result is a success and that has no without-repo
\* result is classified Success: it is listed once in successfulPackages (and in
\* the successful file) and counted in successCount.
C11_SuccessWithoutBaseline ==
    Analyzed =>
        \A n \in Names :
            LET o == packageResults[<<n, TRUE>>]
                b == packageResults[<<n, FALSE>>]
            IN (IsSuccess(o) /\ b = NoResult) =>
                /\ verdict[n] = "Success"
                /\ Count(n, successfulPackages) = 1
                /\ InSeq(NameLine(n), ReadLines(files[1].successful))
                /\ successCount = Len(successfulPackages)
                /\ ~InSeq(n, regressions) /\ ~InSeq(n, failedPackages)

C11_Witness ==
    /\ Analyzed
    /\ \E n \in Names : /\ IsSuccess(packageResults[<<n, TRUE>>])
                        /\ packageResults[<<n, FALSE>>] = NoResult
                        /\ InSeq(n, successfulPackages)
                        /\ successCount >= 1

\* C12: a unit whose with-repo result is a failure (not hung, not skipped) and
\* whose without-repo result is present, not a success and not hung is
\* classified Failure: listed once in failedPackages, counted in failureCount,
\* and not listed in regressions.
C12_FailureBoth ==
    Analyzed =>
        \A n \in Names :
            LET o == packageResults[<<n, TRUE>>]
                b == packageResults[<<n, FALSE>>]
            IN (IsFailure(o) /\ b # NoResult /\ ~b.Success /\ ~b.Hung) =>
                /\ verdict[n] = "Failure"
                /\ Count(n, failedPackages) = 1
                /\ failureCount = Len(failedPackages)
                /\ ~InSeq(n, regressions)

C12_Witness ==
    /\ Analyzed
    /\ \E n \in Names : /\ IsFailure(packageResults[<<n, TRUE>>])
                        /\ IsFailure(packageResults[<<n, FALSE>>])
                        /\ InSeq(n, failedPackages)

\* C13: a unit whose with-repo result is present, not hung and not skipped and
\* whose without-repo result is hung is classified Hung with exactly one hang
\* event, the "(without repo)" one, and is listed neither in failedPackages nor
\* in regressions.
C13_BaselineOnlyHang ==
    Analyzed =>
        \A n \in Names :
            LET o == packageResults[<<n, TRUE>>]
                b == packageResults[<<n, FALSE>>]
            IN (o # NoResult /\ ~o.Hung /\ ~o.Skipped /\ IsHung(b)) =>
                /\ verdict[n] = "HungWithoutRepo"
                /\ Count(HungEntry(n, FALSE), hungTests) = 1
                /\ Count(HungEntry(n, TRUE), hungTests) = 0
                /\ ~InSeq(n, failedPackages)
                /\ ~InSeq(n, regressions)

C13_Witness ==
    /\ Analyzed
    /\ \E n \in Names : /\ IsFailure(packageResults[<<n, TRUE>>])
                        /\ IsHung(packageResults[<<n, FALSE>>])
                        /\ InSeq(HungEntry(n, FALSE), hungTests)

\* every with-repo TestResult value with Skipped set, whatever its other flags
SkippedResults ==
    {[Package |-> n, WithRepo |-> TRUE, Success |-> s, Hung |-> h, Skipped |-> TRUE] :
        n \in Names, s \in BOOLEAN, h \in BOOLEAN}

\* C14: a unit whose with-repo result is Skipped is classified Skipped whatever
\* the other flags of that result (Hung included) and whether or not a
\* without-repo result exists, whatever its outcome; it is listed once in
\* skippedPackages and adds no hang event, regression, failure or success.
C14_SkippedFirst ==
    /\ \A r \in SkippedResults : \A b \in Trials \cup {NoResult} :
          Branch(r, TRUE, b, b # NoResult) = "Skipped"
    /\ Analyzed =>
        \A n \in Names :
            IsSkipped(packageResults[<<n, TRUE>>]) =>
                /\ verdict[n] = "Skipped"
                /\ Count(n, skippedPackages) = 1
                /\ skippedCount = Len(skippedPackages)
                /\ ~InSeq(HungEntry(n, TRUE), hungTests)
                /\ ~InSeq(HungEntry(n, FALSE), hungTests)
                /\ ~InSeq(n, regressions)
                /\ ~InSeq(n, failedPackages)
                /\ ~InSeq(n, successfulPackages)

C14_Witness ==
    /\ Analyzed
    /\ \E n \in Names : /\ IsSkipped(packageResults[<<n, TRUE>>])
                        /\ IsHung(packageResults[<<n, FALSE>>])
                        /\ verdict[n] = "Skipped"
                        /\ hungTests = <<>>

\* C15: a unit of the map without a with-repo result, or with a failed with-repo
\* result (not hung, not skipped) and no without-repo result, is classified
\* Incomplete: it enters none of the five lists, the counters count exactly the
\* listed units, and every other unit of the map is still classified.
C15_Incomplete ==
    Analyzed =>
        /\ visited = Keys
        /\ CountsMatchLists
        /\ \A n \in Names :
            LET o == packageResults[<<n, TRUE>>]
                b == packageResults[<<n, FALSE>>]
            IN /\ (o = NoResult /\ b # NoResult) =>
                     (verdict[n] = "Incomplete" /\ InNoList(n))
               /\ (IsFailure(o) /\ b = NoResult) =>
                     (verdict[n] = "IncompleteNoWithout" /\ InNoList(n))

C15_Witness ==
    /\ Analyzed
    /\ \E n \in Names : \E m \in Names \ {n} :
          /\ packageResults[<<n, TRUE>>] = NoResult
          /\ packageResults[<<n, FALSE>>] # NoResult
          /\ IsFailure(packageResults[<<m, TRUE>>])
          /\ packageResults[<<m, FALSE>>] = NoResult
          /\ verdict[n] = "Incomplete" /\ verdict[m] = "IncompleteNoWithout"

\* the Hung results on the stream that belong to units not classified Skipped
HungTrialsSent ==
    {i \in 1..Len(sent) : sent[i].result.Hung /\ verdict[sent[i].result.Package] # "Skipped"}

\* C16 (as stated): after classification the number of hang events equals the
\* number of Hung results sent on the stream for units that are not Skipped.
C16_HangEventPerHungTrial ==
    Analyzed => Len(hungTests) = Cardinality(HungTrialsSent)

\* the stream holds at most one result per unit and mode
DistinctKeys ==
    \A i \in 1..Len(sent) : \A j \in 1..Len(sent) :
        (sent[i].result.Package = sent[j].result.Package
            /\ sent[i].result.WithRepo = sent[j].result.WithRepo) => i = j

\* the set of results sent, and the result of a unit and mode in that set
TrialSet == {sent[i].result : i \in 1..Len(sent)}
TrialOf(n, w) ==
    IF \E r \in TrialSet : r.Package = n /\ r.WithRepo = w
    THEN CHOOSE r \in TrialSet : r.Package = n /\ r.WithRepo = w
    ELSE NoResult

\* outcome kind of a result ("none" when there is no result)
Kind(r) ==
    IF r = NoResult THEN "none"
    ELSE IF r.Skipped THEN "Skipped"
    ELSE IF r.Hung THEN "Hung"
    ELSE IF r.Success THEN "Success"
    ELSE "Failure"

\* the verdict as a table over (with-repo outcome, without-repo outcome or none)
VerdictOf(o, b) ==
    CASE o = "none" -> "Incomplete"
      [] o = "Skipped" -> "Skipped"
      [] o = "Hung" -> "Hung"
      [] o \in {"Success", "Failure"} /\ b = "Hung" -> "Hung"
      [] o = "Success" /\ b = "none" -> "Success"
      [] o = "Success" /\ b \in {"Success", "Failure", "Skipped"} -> "Unclassified"
      [] o = "Failure" /\ b = "Success" -> "Regression"
      [] o = "Failure" /\ b \in {"Failure", "Skipped"} -> "Failure"
      [] o = "Failure" /\ b = "none" -> "Incomplete"

\* the hang events as a function of the two outcomes
HangEventsOf(o, b) ==
    IF o = "Hung" THEN (IF b = "Hung" THEN 2 ELSE 1)
    ELSE IF o \in {"Success", "Failure"} /\ b = "Hung" THEN 1
    ELSE 0

\* verdict kind of a branch of the classification loop
VerdictKind(v) ==
    CASE v \in {"HungWithRepo", "HungBoth", "HungWithoutRepo"} -> "Hung"
      [] v \in {"Incomplete", "IncompleteNoWithout"} -> "Incomplete"
      [] v = "NoBranch" -> "Unclassified"
      [] OTHER -> v

UnitsOfKind(k) ==
    {n \in Names : VerdictOf(Kind(TrialOf(n, TRUE)), Kind(TrialOf(n, FALSE))) = k
                   /\ (TrialOf(n, TRUE) # NoResult \/ TrialOf(n, FALSE) # NoResult)}

C18_CompletedBoundedMonotone ==
    /\ [](completedTests <= totalTests)
    /\ [][completedTests' >= completedTests]_vars

\* C19: a call of updateProgress that no other call overlaps (a single caller)
\* adds exactly 1 to completedTests when completedTests < totalTests and leaves
\* it unchanged when completedTests >= totalTests; the load changes nothing,
\* the add is made whether or not r.verbose is set, and r.verbose only
\* suppresses the progress line.
C19_Step ==
    \A t \in Tasks :
        /\ (tpc[t] = "updateProgress" /\ tpc'[t] # "updateProgress") =>
              /\ completedTests' = completedTests
              /\ progressShown' = progressShown
              /\ tpc'[t] = (IF completedTests < totalTests THEN "progressAdd" ELSE "release")
        /\ (tpc[t] = "progressAdd" /\ tpc'[t] # "progressAdd") =>
              /\ completedTests' = completedTests + 1
              /\ progressShown' = (IF verbose THEN progressShown ELSE progressShown + 1)
              /\ tpc'[t] = "release"
              /\ Len(pkgs) = 1 => completedTests < totalTests
        /\ (tpc[t] = "release" /\ tpc'[t] = "updateProgress") =>
              /\ completedTests' = completedTests
              /\ progressShown' = progressShown

C19_SingleCallAddsOneBelowTotal == [][C19_Step]_vars

\* a single caller in verbose mode: the first call reached the total, the
\* second call left the counter unchanged, and no progress line was printed
C19_Witness ==
    /\ Len(pkgs) = 1
    /\ verbose
    /\ calls[1].progress = 2
    /\ tpc[1] = "release"
    /\ totalTests >= 1
    /\ completedTests = totalTests
    /\ progressShown = 0

\* the goroutine t has called updateProgress
Advanced(t) == calls[t].progress >= 1

C20_Once ==
    \A t \in Tasks :
        /\ calls[t].progress \in {0, 1}
        /\ Advanced(t) <=> tpc[t] \in {"progressAdd", "release", "finished"}
        /\ Advanced(t) =>
              /\ SentBy(t, TRUE)
              /\ calls[t].withoutRepo = 1 =>
                    /\ withoutRepoResult[t] # NoResult
                    /\ SentBy(t, FALSE) \/ withoutRepoResult[t].Skipped

C20_NothingAfter ==
    \A t \in Tasks :
        Advanced(t) =>
            /\ calls'[t].withRepo = calls[t].withRepo
            /\ calls'[t].withoutRepo = calls[t].withoutRepo
            /\ \A i \in 1..Len(sent') : sent'[i].task = t => i <= Len(sent)

\* C20: every unit goroutine calls updateProgress exactly once, on every path
\* (with-repo result Skipped, Success, Failure or Hung, and the without-repo
\* call returning ErrPackageYAMLNotFound): a goroutine past the call has made
\* one call, has sent every result it sends, and afterwards runs no trial and
\* sends nothing.
C20_AdvanceOnceAfterSends == []C20_Once /\ [][C20_NothingAfter]_vars

\* every goroutine has finished, one of them through the ErrPackageYAMLNotFound guard
C20_Witness ==
    /\ \A t \in Tasks : tpc[t] = "finished" /\ calls[t].progress = 1
    /\ \E t \in Tasks : withoutRepoResult[t] # NoResult /\ withoutRepoResult[t].Skipped
    /\ \E t \in Tasks : SentBy(t, FALSE)

\* the entries of the stream that carry a result of unit n in mode w
TrialsOn(n, w) ==
    {i \in 1..Len(sent) : sent[i].result.Package = n /\ sent[i].result.WithRepo = w}

\* the goroutines that have called TestPackage for unit n in mode w
CallersOf(n, w) ==
    {t \in Tasks : pkgs[t] = n /\ (IF w THEN calls[t].withRepo ELSE calls[t].withoutRepo) >= 1}

\* C21 (as stated): whatever the list of names, a repeated name included, the
\* stream carries at most one with-repo and at most one without-repo result
\* per unit name, and no (unit, mode) trial is executed more than once.
C21_OneTrialPerNameAndMode ==
    \A n \in Names : \A w \in BOOLEAN :
        /\ Cardinality(TrialsOn(n, w)) <= 1
        /\ Cardinality(CallersOf(n, w)) <= 1
        /\ \A t \in Tasks : calls[t].withRepo <= 1 /\ calls[t].withoutRepo <= 1

\* positions on the stream of the results goroutine t sent in mode w
SentAt(t, w) ==
    {i \in 1..Len(sent) : sent[i].task = t /\ sent[i].result.WithRepo = w}

\* C22: once the channel is closed every entry of the package list has exactly
\* one with-repo result on the stream, the one its goroutine got from
\* TestPackage, whatever the outcome (Success, Failure, Hung or Skipped); and
\* when analyzeResults has returned every listed name is a key with a verdict.
C22_OverlayEmittedForEveryUnit ==
    /\ \A t \in Tasks :
         (closed \/ withRepoResult[t] # NoResult) =>
            /\ Cardinality(SentAt(t, TRUE)) = 1
            /\ \A i \in SentAt(t, TRUE) :
                  /\ sent[i].result = withRepoResult[t]
                  /\ sent[i].result.Package = pkgs[t]
    /\ Analyzed => \A t \in Tasks : pkgs[t] \in Keys /\ verdict[pkgs[t]] # "none"

\* the channel is closed after two units, one Skipped and one Hung with repo
C22_Witness ==
    /\ closed
    /\ Len(pkgs) = 2
    /\ \E t \in Tasks : \E u \in Tasks :
          /\ IsSkipped(withRepoResult[t]) /\ SentBy(t, TRUE)
          /\ IsHung(withRepoResult[u]) /\ SentBy(u, TRUE)

\* C23 (state part): a goroutine inside or past its without-repo TestPackage
\* call has its with-repo result and has sent it; on the stream its with-repo
\* result stands before its without-repo result; and every without-repo
\* result on the stream has a with-repo result of the same unit before it.
C23_Order ==
    /\ \A t \in Tasks :
          calls[t].withoutRepo >= 1 =>
             /\ calls[t].withRepo = 1
             /\ withRepoResult[t] # NoResult
             /\ SentBy(t, TRUE)
             /\ \A i \in SentAt(t, TRUE) : \A j \in SentAt(t, FALSE) : i < j
    /\ \A j \in 1..Len(sent) :
          ~sent[j].result.WithRepo =>
             \E i \in 1..(j - 1) : /\ sent[i].result.WithRepo
                                   /\ sent[i].result.Package = sent[j].result.Package

\* C23 (step part): the step that starts a goroutine's without-repo call is
\* the step in which its with-repo call returns, and a goroutine is never in
\* both calls: while the with-repo call runs no without-repo call has started.
C23_Start ==
    \A t \in Tasks :
        /\ calls'[t].withoutRepo > calls[t].withoutRepo =>
              /\ tpc[t] = "testWithRepo" /\ tpc'[t] = "testWithoutRepo"
              /\ withRepoResult'[t] # NoResult
              /\ Len(sent') = Len(sent) + 1
              /\ sent'[Len(sent')].task = t /\ sent'[Len(sent')].result.WithRepo
        /\ tpc[t] = "testWithRepo" => calls[t].withoutRepo = 0

\* C23: within one goroutine the two trials are sequential: the without-repo
\* trial starts only after the with-repo trial has returned and its result has
\* been sent, so the with-repo result precedes the without-repo result on the
\* stream and the two calls never overlap.
C23_OverlayBeforeBaseline == []C23_Order /\ [][C23_Start]_vars

\* two goroutines have each sent a with-repo and then a without-repo result,
\* interleaved on the stream
C23_Witness ==
    /\ Len(pkgs) = 2
    /\ \A t \in Tasks : SentBy(t, TRUE) /\ SentBy(t, FALSE)
    /\ sent[1].task # sent[2].task

\* C24: a send on the results channel never blocks: the number of results sent
\* so far is at most 2 x len(packages), the capacity of the channel, however
\* few of them analyzeResults has received; so whenever a goroutine is in a
\* TestPackage call, after which it may send, the channel has a free slot.
C24_SendNeverBlocks ==
    /\ Len(sent) <= 2 * Len(pkgs)
    /\ Len(sent) <= ResultsCap
    /\ Len(results) <= Len(sent)
    /\ \A t \in Tasks :
          tpc[t] \in {"testWithRepo", "testWithoutRepo"} => Len(results) < ResultsCap

\* two units have sent four results and analyzeResults has received none
C24_Witness ==
    /\ Len(pkgs) = 2
    /\ Len(sent) = 4
    /\ Len(results) = 4
    /\ Len(results) = ResultsCap

\* C25: when TestPackage returns on a path past the os.Stat check (nil, a
\* nonzero exit, ErrTestHung, the log file error, the start error) the
\* temporary directory it created has been removed and the log file, if it
\* was opened, has been closed; when os.MkdirTemp itself failed there is no
\* directory and no log file.
C25_CleanedUpOnReturn ==
    (epc = "return" /\ execErr # ErrPackageYAMLNotFound) =>
        /\ tempDir # "exists"
        /\ logFile # "open"
        /\ execErr # ErrTempDir => tempDir = "removed"
        /\ execErr \in {Nil, ErrExit, ErrTestHung, ErrStart} => logFile = "closed"
        /\ execErr = ErrLogFile => logFile = "none"
        /\ execErr = ErrTempDir => tempDir = "none" /\ logFile = "none"

\* TestPackage returns ErrTestHung with the directory removed and the log closed
C25_Witness ==
    /\ epc = "return"
    /\ execErr = ErrTestHung
    /\ killed
    /\ tempDir = "removed"
    /\ logFile = "closed"

\* ---------------------------------------------------------------- ExecRunFairSpec
\* Two units and one token: the whole run with TestPackage unfolded, the two
\* unit goroutines taking the token one after the other.
ExecRunInit ==
    /\ pkgs = <<"a", "b">>
    /\ concurrency = 1
    /\ verbose = FALSE
    /\ yaml \in SUBSET Names
    /\ InitRun
    /\ InitClass
    /\ InitExec
    /\ InitCli

\* The Go scheduler runs every runnable goroutine, a timer fires, a process
\* that ends is waited for: some enabled step is eventually taken.  No step
\* can be repeated for ever, so this is all the run needs to reach its end.
ExecRunFairSpec == ExecRunInit /\ [][ExecNext]_vars /\ WF_vars(ExecNext)

\* the errors of TestPackage that come from setting the trial up
SetupErrs == {ErrTempDir, ErrLogFile, ErrStart}

\* the run has ended with every unit tried and classified
RunCompleted ==
    /\ Analyzed
    /\ files # <<>>
    /\ retErr # NoRet
    /\ \A t \in Tasks :
          /\ tpc[t] = "finished"
          /\ calls[t].withRepo = 1
          /\ SentBy(t, TRUE)
          /\ pkgs[t] \in Keys
          /\ verdict[pkgs[t]] \notin {"none", "NoBranch"}

\* C26 (step part): when TestPackage returns a setup error to goroutine t, the
\* goroutine builds the result from that error with Success, Hung and Skipped
\* all false, sends it, goes on (to the without-repo trial after a with-repo
\* one), and Run returns nothing in that step.
C26_Return ==
    \A t \in Tasks :
        (InCall(t) /\ epc = "return" /\ execErr \in SetupErrs /\ epc' = "idle") =>
            LET w == (tpc[t] = "testWithRepo")
                r == TestResult(pkgs[t], w, execErr)
            IN /\ ~r.Success /\ ~r.Hung /\ ~r.Skipped
               /\ IsFailure(r)
               /\ sent' = Append(sent, [task |-> t, result |-> r])
               /\ IF w THEN withRepoResult'[t] = r /\ tpc'[t] = "testWithoutRepo"
                       ELSE withoutRepoResult'[t] = r /\ tpc'[t] = "updateProgress"
               /\ retErr' = retErr /\ apc' = apc /\ exitCode' = exitCode
               /\ \A u \in Tasks \ {t} : tpc'[u] = tpc[u]

\* C26: a setup error (temporary directory, log file) or a start error of one
\* trial becomes a Failure result built from that error; it does not end the
\* run: from the return of such an error the run always goes on until every
\* unit has been tried and classified and the result files are written.
C26_SetupErrorIsFailure ==
    /\ [][C26_Return]_vars
    /\ (epc = "return" /\ execErr \in SetupErrs) ~> RunCompleted

\* the first unit tried gets a start error while the other unit has not run yet
C26_Witness ==
    /\ epc = "return"
    /\ execErr = ErrStart
    /\ \E t \in Tasks : \E u \in Tasks \ {t} :
          /\ tpc[t] = "testWithRepo"
          /\ tpc[u] = "acquire"

\* ---------------------------------------------------------------- ResolveSpec
\* Run from its first statement: the log directory, the reverse dependencies,
\* then the unit goroutines as in Spec.  pkgs is the list the provider returns
\* when it succeeds (origins de-duplicated and sorted).
ErrLogDir == [msg |-> "failed to create log directory", n |-> 0]
ErrReverseDeps == [msg |-> "failed to get reverse dependencies", n |-> 0]

ProviderLists == {<<>>, <<"a">>, <<"b">>, <<"a", "b">>}

ResolveInit ==
    /\ pkgs \in ProviderLists
    /\ concurrency \in 0..MaxConcurrency
    /\ verbose = FALSE
    /\ yaml \in SUBSET Names
    /\ InitRun
    /\ apc = "mkdirAll"
    /\ packageResults = [k \in Names \X BOOLEAN |-> NoResult]
    /\ visited = {}
    /\ verdict = [n \in Names |-> "none"]
    /\ regressions = <<>> /\ hungTests = <<>> /\ successfulPackages = <<>>
    /\ failedPackages = <<>> /\ skippedPackages = <<>>
    /\ successCount = 0 /\ failureCount = 0 /\ skippedCount = 0
    /\ files = <<>>
    /\ retErr = NoRet
    /\ exitCode = -1
    /\ InitExec
    /\ InitCli

\* if err := os.MkdirAll(r.logDir, 0755); err != nil { return fmt.Errorf(...) }
RunMkdirAll ==
    /\ apc = "mkdirAll"
    /\ \E ok \in BOOLEAN :
          IF ok THEN apc' = "resolve" /\ retErr' = retErr
          ELSE apc' = "returned" /\ retErr' = ErrLogDir
    /\ UNCHANGED <<schedVars, yaml, execVars, cliVars>>
    /\ UNCHANGED <<packageResults, visited, verdict, regressions, hungTests,
                   successfulPackages, failedPackages, skippedPackages,
                   successCount, failureCount, skippedCount, files, exitCode>>

\* the error of GetReverseDependencies reported and the run carried on
RunGetReverseDependenciesGoesOn ==
    /\ apc = "resolve"
    /\ \E ok \in BOOLEAN :
          IF ~ok THEN apc' = "run" /\ retErr' = ErrReverseDeps
          ELSE IF Len(pkgs) = 0 THEN apc' = "returned" /\ retErr' = NilRet
          ELSE apc' = "run" /\ retErr' = retErr
    /\ UNCHANGED <<schedVars, yaml, execVars, cliVars>>
    /\ UNCHANGED <<packageResults, visited, verdict, regressions, hungTests,
                   successfulPackages, failedPackages, skippedPackages,
                   successCount, failureCount, skippedCount, files, exitCode>>

\* reverseDeps, err := r.apkrane.GetReverseDependencies(r.packageName)
\* if err != nil { return fmt.Errorf("failed to get reverse dependencies: %w", err) }
\* if len(reverseDeps) == 0 { ...; return nil }
RunGetReverseDependencies ==
    /\ apc = "resolve"
    /\ \E ok \in BOOLEAN :
          IF ~ok THEN apc' = "returned" /\ retErr' = ErrReverseDeps
          ELSE IF Len(pkgs) = 0 THEN apc' = "returned" /\ retErr' = NilRet
          ELSE apc' = "run" /\ retErr' = retErr
    /\ UNCHANGED <<schedVars, yaml, execVars, cliVars>>
    /\ UNCHANGED <<packageResults, visited, verdict, regressions, hungTests,
                   successfulPackages, failedPackages, skippedPackages,
                   successCount, failureCount, skippedCount, files, exitCode>>

ResolveNext ==
    \/ RunMkdirAll
    \/ RunGetReverseDependencies
    \/ Next

ResolveSpec == ResolveInit /\ [][ResolveNext]_vars

\* C27: when GetReverseDependencies fails, Run returns that error with no unit
\* goroutine launched: no TestPackage call was made, nothing was sent on the
\* channel, the progress counter was not advanced and no result file was
\* written; and nothing of this changes afterwards.
C27_ResolveFailureLaunchesNothing ==
    retErr = ErrReverseDeps =>
        /\ apc \in {"returned", "exited"}
        /\ \A t \in Tasks :
              /\ tpc[t] = "unstarted"
              /\ calls[t] = [withRepo |-> 0, withoutRepo |-> 0, progress |-> 0]
        /\ wg = 0 /\ sem = 0
        /\ sent = <<>> /\ results = <<>> /\ ~closed
        /\ completedTests = 0 /\ progressShown = 0 /\ totalTests = 0
        /\ files = <<>>
        /\ exitCode \in {-1, 1}

\* the provider failed for a package with two reverse dependencies and the
\* process has exited with status 1
C27_Witness ==
    /\ retErr = ErrReverseDeps
    /\ Len(pkgs) = 2
    /\ apc = "exited"
    /\ exitCode = 1

\* the make process has ended on its own while the timer of the call is still armed
ExitedBeforeTimer == proc \in {"exited", "reaped"} /\ ctxTimer = "armed" /\ ~killed

\* the error a call returns for a process that ended on its own
ExitErr == IF exitStatus = "0" THEN Nil ELSE ErrExit

\* C28 (as stated): when the process of a TestPackage call exits before the
\* timer of that call fires, the call returns nil for exit status 0 and the
\* exit error otherwise, never ErrTestHung, and Kill is not called.
C28_ExitBeforeTimerNotHung ==
    \A ph \in {"testWithRepo", "testWithoutRepo"} :
        []((ExitedBeforeTimer /\ tpc[1] = ph) =>
              []((epc = "return" /\ tpc[1] = ph) => (execErr = ExitErr /\ ~killed)))

\* the unit a hung entry is about
HungUnits == {hungTests[i][1] : i \in 1..Len(hungTests)}

\* the lists, out of the five, in which unit n has an entry
ListsOf(n) ==
    {l \in {"successful", "failed", "regressions", "hung", "skipped"} :
        \/ l = "successful" /\ InSeq(n, successfulPackages)
        \/ l = "failed" /\ InSeq(n, failedPackages)
        \/ l = "regressions" /\ InSeq(n, regressions)
        \/ l = "hung" /\ n \in HungUnits
        \/ l = "skipped" /\ InSeq(n, skippedPackages)}

\* C29: writeResultFiles is handed five lists and writes each one entry per
\* line: a unit with verdict Success, Failure, Regression or Skipped is exactly
\* once in the matching list, no unit has entries in more than one of the five
\* lists, and the lines read back from each file are the entries of its list.
C29_FivePartitions ==
    Analyzed =>
        /\ \A n \in Names :
              /\ verdict[n] = "Success" =>
                    Count(n, successfulPackages) = 1 /\ ListsOf(n) = {"successful"}
              /\ verdict[n] = "Failure" =>
                    Count(n, failedPackages) = 1 /\ ListsOf(n) = {"failed"}
              /\ verdict[n] = "Regression" =>
                    Count(n, regressions) = 1 /\ ListsOf(n) = {"regressions"}
              /\ verdict[n] = "Skipped" =>
                    Count(n, skippedPackages) = 1 /\ ListsOf(n) = {"skipped"}
              /\ Cardinality(ListsOf(n)) <= 1
        /\ Len(files) = 1
        /\ ReadLines(files[1].successful) = NameLines(successfulPackages)
        /\ ReadLines(files[1].failed) = NameLines(failedPackages)
        /\ ReadLines(files[1].regressions) = NameLines(regressions)
        /\ ReadLines(files[1].hung) = hungTests
        /\ ReadLines(files[1].skipped) = NameLines(skippedPackages)

\* the files are written: two units classified Success, two lines in successful.txt,
\* failed.txt empty
C29_Witness ==
    /\ Analyzed
    /\ Len(successfulPackages) = 2
    /\ files[1].successful = <<successfulPackages[1], NL, successfulPackages[2], NL>>
    /\ files[1].failed = <<>>
    /\ verdict["a"] = "Success" /\ verdict["b"] = "Success"

\* the six verdicts a unit can be given
SixVerdicts == {"Success", "Failure", "Regression", "Hung", "Skipped", "Incomplete"}

\* C30 (as stated): whatever with-repo and without-repo results of a unit are
\* in the stream (each absent, or present with any outcome), analyzeResults
\* gives the unit one of the six verdicts Success, Failure, Regression, Hung,
\* Skipped, Incomplete: no unit is left without a verdict.
C30_EveryCombinationHasVerdict ==
    Analyzed => \A n \in Keys : VerdictKind(verdict[n]) \in SixVerdicts

\* the entries of the package list whose with-repo trial returned ErrPackageYAMLNotFound
SkippedEntries == {t \in Tasks : IsSkipped(withRepoResult[t])}

\* C31 (as stated): the skipped count of the summary (skippedCount, printed as
\* "Packages skipped") equals the number of entries of the input list whose
\* with-repo trial was Skipped.
C31_SkippedCountIsSkippedUnits ==
    Analyzed => skippedCount = Cardinality(SkippedEntries)

\* ---------------------------------------------------------------- ReadSpec
\* readPackageFile on its own, on every file of up to MaxFile pieces.  A piece
\* is one byte ("p", "q", "#", " ", "\n") or LongRun, a run of
\* MaxScanTokenSize name bytes.
MaxFile == 4

\* bufio.MaxScanTokenSize, the buffer limit of the bufio.Scanner made by bufio.NewScanner
MaxScanTokenSize == 65536

LongRun == "p...p"

Pieces == {"p", "q", "#", " ", NL, LongRun}

Files == UNION {[1..k -> Pieces] : k \in 0..MaxFile}

\* number of bytes of a string of pieces
RECURSIVE ByteLen(_)
ByteLen(c) ==
    IF Len(c) = 0 THEN 0
    ELSE (IF Head(c) = LongRun THEN MaxScanTokenSize ELSE 1) + ByteLen(Tail(c))

ErrOpen == "open: no such file or directory"
ErrScan == "bufio.Scanner: token too long"
ErrNoPackages == "no packages found in file"

ReadInit ==
    /\ pkgs = <<>>
    /\ concurrency = 1
    /\ verbose = FALSE
    /\ yaml = {}
    /\ InitRun
    /\ InitClass
    /\ InitExec
    /\ fileExists \in BOOLEAN
    /\ fileContent \in (IF fileExists THEN Files ELSE {<<>>})
    /\ rpc = "open"
    /\ unread = <<>>
    /\ packages = <<>>
    /\ readRet = NoRead
    /\ InitDeps

\* file, err := os.Open(filename); if err != nil { return nil, err }
\* defer file.Close(); scanner := bufio.NewScanner(file)
ReadOpen ==
    /\ rpc = "open"
    /\ IF fileExists
       THEN /\ rpc' = "scan" /\ unread' = fileContent /\ readRet' = readRet
       ELSE /\ rpc' = "returned" /\ unread' = unread
            /\ readRet' = [packages |-> <<>>, err |-> ErrOpen]
    /\ UNCHANGED <<fileExists, fileContent, packages>>
    /\ UNCHANGED <<schedVars, classVars, yaml, execVars, depVars>>

\* the first line of c as bufio.ScanLines cuts it: the bytes before the first "\n"
FirstLine(c) ==
    IF \A i \in 1..Len(c) : c[i] # NL THEN c
    ELSE SubSeq(c, 1, (CHOOSE i \in 1..Len(c) : c[i] = NL /\ \A j \in 1..(i - 1) : c[j] # NL) - 1)

\* what is left of c after its first line and the "\n" that ends it
AfterFirstLine(c) ==
    IF \A i \in 1..Len(c) : c[i] # NL THEN <<>>
    ELSE SubSeq(c, Len(FirstLine(c)) + 2, Len(c))

\* a line kept although it is a comment
KeepLineWithComments(line) == line # <<>>

\* if line != "" && !strings.HasPrefix(line, "#")
KeepLine(line) == line # <<>> /\ Head(line) # "#"

\* for scanner.Scan() { line := strings.TrimSpace(scanner.Text()); if ... {
\*     packages = append(packages, line) } }
\* if err := scanner.Err(); err != nil { return nil, err }
\* Scan ends the loop at the end of the file and on a line that does not fit
\* the buffer (ErrTooLong); the file is taken to be readable once it is open.
ReadScan ==
    /\ rpc = "scan"
    /\ IF unread # <<>> /\ ByteLen(FirstLine(unread)) >= MaxScanTokenSize
       THEN /\ rpc' = "returned"
            /\ readRet' = [packages |-> <<>>, err |-> ErrScan]
            /\ UNCHANGED <<unread, packages>>
       ELSE IF unread = <<>>
       THEN /\ rpc' = "check"
            /\ UNCHANGED <<unread, packages, readRet>>
       ELSE LET line == TrimSpace(FirstLine(unread))
            IN /\ packages' = IF KeepLine(line) THEN Append(packages, line) ELSE packages
               /\ unread' = AfterFirstLine(unread)
               /\ UNCHANGED <<rpc, readRet>>
    /\ UNCHANGED <<fileExists, fileContent>>
    /\ UNCHANGED <<schedVars, classVars, yaml, execVars, depVars>>

\* if len(packages) == 0 { return nil, fmt.Errorf("no packages found in file %s", filename) }
\* return packages, nil
ReadCheck ==
    /\ rpc = "check"
    /\ readRet' = IF Len(packages) = 0 THEN [packages |-> <<>>, err |-> ErrNoPackages]
                  ELSE [packages |-> packages, err |-> Nil]
    /\ rpc' = "returned"
    /\ UNCHANGED <<fileExists, fileContent, unread, packages>>
    /\ UNCHANGED <<schedVars, classVars, yaml, execVars, depVars>>

ReadNext == ReadOpen \/ ReadScan \/ ReadCheck

ReadSpec == ReadInit /\ [][ReadNext]_vars

\* the lines of a file: the strings between the newlines, without the empty
\* string after a final newline
FileLines(c) ==
    LET l == Split(c)
    IN IF l[Len(l)] = <<>> THEN SubSeq(l, 1, Len(l) - 1) ELSE l

\* the trimmed lines of q that are not empty and are no comment, in order
RECURSIVE WantedLines(_)
WantedLines(q) ==
    IF Len(q) = 0 THEN <<>>
    ELSE LET line == TrimSpace(Head(q))
         IN (IF line # <<>> /\ Head(line) # "#" THEN <<line>> ELSE <<>>)
                \o WantedLines(Tail(q))

\* what the statement promises for a file that can be opened
ReadAsStated ==
    LET want == WantedLines(FileLines(fileContent))
    IN IF want = <<>> THEN readRet = [packages |-> <<>>, err |-> ErrNoPackages]
       ELSE readRet = [packages |-> want, err |-> Nil]

\* a line of the file does not fit the buffer of the scanner
HasLongLine ==
    \E i \in 1..Len(FileLines(fileContent)) :
        ByteLen(FileLines(fileContent)[i]) >= MaxScanTokenSize

\* C32 (as stated): readPackageFile returns, in file order, exactly the
\* trimmed lines that are non-empty and do not start with "#"; it returns the
\* error "no packages found in file" when there is no such line, and an error
\* when the file cannot be opened.
C32_ReadAsStated ==
    rpc = "returned" =>
        IF fileExists THEN ReadAsStated
        ELSE readRet.err \notin {Nil, NoErr} /\ readRet.packages = <<>>

\* C32 (amended): as stated for a file whose lines all fit the 64 KiB buffer
\* of the scanner; for a file with a longer line readPackageFile returns no
\* list and the error of the scanner, whatever its other lines are.
C32_ReadOrScanError ==
    rpc = "returned" =>
        IF ~fileExists THEN readRet = [packages |-> <<>>, err |-> ErrOpen]
        ELSE IF HasLongLine THEN readRet = [packages |-> <<>>, err |-> ErrScan]
        ELSE ReadAsStated

\* a file with blanks around the first name: two names returned in file order
C32_Witness ==
    /\ rpc = "returned"
    /\ fileContent = <<" ", "q", NL, "p">>
    /\ readRet = [packages |-> << <<"q">>, <<"p">> >>, err |-> Nil]

\* ---------------------------------------------------------------------------
\* DepsSpec: one call of ApkraneClient.GetReverseDependencies.  Strings are
\* sequences of pieces, so that fmt.Sprintf is a concatenation,
\* strings.Contains a search and sort.Strings a lexicographic ordering.

\* the longest output of apkrane ls, in lines
MaxLines == 2

RepoTypes == {"wolfi", "enterprise", "extras", "other"}
GoArchs == {"amd64", "arm64"}
Queries == {<<"a">>}
DepStrings == {<<"b">>, <<"b", "a">>}
DepLists == UNION {[1..k -> DepStrings] : k \in 0..2}
Origins == {<<>>, <<"a">>, <<"b">>}

\* a line of the output: blank, not JSON, longer than the scanner's buffer, or
\* the JSON of a Package
OtherLine(k) == [kind |-> k, Origin |-> <<>>, Dependencies |-> <<>>]
EntryLine(o, d) == [kind |-> "entry", Origin |-> o, Dependencies |-> d]
LineKinds ==
    {OtherLine(k) : k \in {"blank", "unparsable", "toolong"}}
        \cup {EntryLine(o, d) : o \in Origins, d \in DepLists}
ApkOutputs == UNION {[1..k -> LineKinds] : k \in 0..MaxLines}

ErrAuth == "failed to setup authentication"
ErrApkrane == "failed to run apkrane ls"
ErrReadOutput == "failed to read apkrane output"

\* arch := runtime.GOARCH; if arch == "amd64" { arch = "x86_64" }
Arch(g) == IF g = "amd64" THEN "x86_64" ELSE g

\* fmt.Sprintf("<prefix>%s/APKINDEX.tar.gz", arch)
getIndexURL(rt, arch) ==
    CASE rt = "enterprise" ->
            <<"https://apk.cgr.dev/chainguard-private/", arch, "/APKINDEX.tar.gz">>
      [] rt = "extras" ->
            <<"https://packages.cgr.dev/extras/", arch, "/APKINDEX.tar.gz">>
      [] OTHER ->
            <<"https://packages.wolfi.dev/os/", arch, "/APKINDEX.tar.gz">>

ContainsWholeOnly(s, sub) == s = sub

\* strings.Contains(s, sub)
Contains(s, sub) ==
    \E i \in 1..(Len(s) - Len(sub) + 1) : SubSeq(s, i, i + Len(sub) - 1) = sub

\* the byte order sort.Strings compares by
Code(c) == IF c = "a" THEN 97 ELSE 98

RECURSIVE Less(_, _)
Less(s, t) ==
    IF t = <<>> THEN FALSE
    ELSE IF s = <<>> THEN TRUE
    ELSE IF Head(s) # Head(t) THEN Code(Head(s)) < Code(Head(t))
    ELSE Less(Tail(s), Tail(t))

\* sort.Strings over the keys of originSet
RECURSIVE SortStrings(_)
SortStrings(S) ==
    IF S = {} THEN <<>>
    ELSE LET m == CHOOSE x \in S : \A y \in S \ {x} : Less(x, y)
         IN  <<m>> \o SortStrings(S \ {m})

\* the keys of originSet after the loop over packages
OriginSet(ps, name) ==
    {ps[i].Origin : i \in {j \in 1..Len(ps) :
        /\ ps[j].Origin # <<>>
        /\ \E k \in 1..Len(ps[j].Dependencies) :
              Contains(ps[j].Dependencies[k], name)}}

DepsInit ==
    /\ pkgs = <<>>
    /\ concurrency = 1
    /\ verbose = FALSE
    /\ yaml = {}
    /\ InitRun
    /\ InitClass
    /\ InitExec
    /\ InitFile
    /\ repoType \in RepoTypes
    /\ goarch \in GoArchs
    /\ packageName \in Queries
    /\ apkOut \in ApkOutputs
    /\ dpc = "arch"
    /\ indexURL = <<>>
    /\ httpAuth = FALSE
    /\ dunread = <<>>
    /\ parsed = <<>>
    /\ depsRet = NoDeps

\* arch, indexURL := a.getIndexURL(arch), exec.Command(...)
DepsIndexURL ==
    /\ dpc = "arch"
    /\ indexURL' = getIndexURL(repoType, Arch(goarch))
    /\ dpc' = IF repoType \in {"enterprise", "extras"} THEN "auth" ELSE "output"
    /\ UNCHANGED <<repoType, goarch, packageName, apkOut, httpAuth, dunread,
                   parsed, depsRet>>
    /\ UNCHANGED <<schedVars, classVars, yaml, execVars, fileVars>>

\* a.setupAuth(cmd): chainctl auth token succeeds or fails
DepsSetupAuth ==
    /\ dpc = "auth"
    /\ \/ /\ httpAuth' = TRUE
          /\ dpc' = "output"
          /\ UNCHANGED depsRet
       \/ /\ depsRet' = [origins |-> <<>>, err |-> ErrAuth]
          /\ dpc' = "returned"
          /\ UNCHANGED httpAuth
    /\ UNCHANGED <<repoType, goarch, packageName, apkOut, indexURL, dunread,
                   parsed>>
    /\ UNCHANGED <<schedVars, classVars, yaml, execVars, fileVars>>

\* output, err := cmd.Output()
DepsOutput ==
    /\ dpc = "output"
    /\ \/ /\ dunread' = apkOut
          /\ dpc' = "scan"
          /\ UNCHANGED depsRet
       \/ /\ depsRet' = [origins |-> <<>>, err |-> ErrApkrane]
          /\ dpc' = "returned"
          /\ UNCHANGED dunread
    /\ UNCHANGED <<repoType, goarch, packageName, apkOut, indexURL, httpAuth,
                   parsed>>
    /\ UNCHANGED <<schedVars, classVars, yaml, execVars, fileVars>>

\* one turn of for scanner.Scan() { ... }, or scanner.Err() after it
DepsScan ==
    /\ dpc = "scan"
    /\ dunread # <<>>
    /\ LET line == Head(dunread) IN
         IF line.kind = "toolong"
         THEN /\ depsRet' = [origins |-> <<>>, err |-> ErrReadOutput]
              /\ dpc' = "returned"
              /\ UNCHANGED <<dunread, parsed>>
         ELSE /\ dunread' = Tail(dunread)
              /\ parsed' = IF line.kind = "entry"
                           THEN Append(parsed, [Origin |-> line.Origin,
                                    Dependencies |-> line.Dependencies])
                           ELSE parsed
              /\ UNCHANGED <<dpc, depsRet>>
    /\ UNCHANGED <<repoType, goarch, packageName, apkOut, indexURL, httpAuth>>
    /\ UNCHANGED <<schedVars, classVars, yaml, execVars, fileVars>>

\* originSet, sort.Strings(origins), return origins, nil
DepsReturn ==
    /\ dpc = "scan"
    /\ dunread = <<>>
    /\ depsRet' = [origins |-> SortStrings(OriginSet(parsed, packageName)),
                   err |-> Nil]
    /\ dpc' = "returned"
    /\ UNCHANGED <<repoType, goarch, packageName, apkOut, indexURL, httpAuth,
                   dunread, parsed>>
    /\ UNCHANGED <<schedVars, classVars, yaml, execVars, fileVars>>

DepsNext ==
    \/ DepsIndexURL
    \/ DepsSetupAuth
    \/ DepsOutput
    \/ DepsScan
    \/ DepsReturn

DepsSpec == DepsInit /\ [][DepsNext]_vars

\* C33: getIndexURL gives the wolfi index for wolfi and for an unknown repo
\* type, the chainguard-private index for enterprise and the extra-packages
\* index on apk.cgr.dev for extras.
C33_IndexURLAsStated ==
    dpc \notin {"idle", "arch"} =>
        indexURL =
            CASE repoType = "enterprise" ->
                    <<"https://apk.cgr.dev/chainguard-private/", Arch(goarch),
                      "/APKINDEX.tar.gz">>
              [] repoType = "extras" ->
                    <<"https://apk.cgr.dev/extra-packages/", Arch(goarch),
                      "/APKINDEX.tar.gz">>
              [] OTHER ->
                    <<"https://packages.wolfi.dev/os/", Arch(goarch),
                      "/APKINDEX.tar.gz">>

\* C40: a successful GetReverseDependencies returns a strictly ascending list
\* of non-empty origins that holds exactly the origins of the parsed entries
\* having a dependency string that contains the package name; blank and
\* unparsable lines change nothing.
C40_SortedReverseDependencies ==
    (dpc = "returned" /\ depsRet.err = Nil) =>
        LET r == depsRet.origins IN
        /\ \A i \in 1..Len(r) : r[i] # <<>>
        /\ \A i \in 1..(Len(r) - 1) : Less(r[i], r[i + 1])
        /\ \A o \in Origins \ {<<>>} :
              (\E i \in 1..Len(r) : r[i] = o)
                  <=> (\E j \in 1..Len(apkOut) :
                          /\ apkOut[j].kind = "entry"
                          /\ apkOut[j].Origin = o
                          /\ \E k \in 1..Len(apkOut[j].Dependencies) :
                                LET dep == apkOut[j].Dependencies[k] IN
                                \E i \in 1..(Len(dep) - Len(packageName) + 1) :
                                    SubSeq(dep, i, i + Len(packageName) - 1)
                                        = packageName)

C40_Witness ==
    /\ dpc = "returned"
    /\ apkOut = <<EntryLine(<<"b">>, << <<"b", "a">> >>),
                  EntryLine(<<"a">>, << <<"b">>, <<"b", "a">> >>)>>
    /\ depsRet = [origins |-> << <<"a">>, <<"b">> >>, err |-> Nil]

\* C34: on the timeout path the steps come in this order: the timer has fired
\* when the timeout case is taken, then Kill is called, then the wait started
\* before is received from done (the process is gone), then the marker is
\* written to the still open log, and only after that the log is closed, the
\* working directory removed and ErrTestHung handed to the caller.
C34_TimeoutOrder ==
    [][/\ (epc = "select" /\ epc' = "kill") => ctxTimer = "fired"
       /\ (epc = "kill" /\ epc' = "drain") => (killed' /\ proc' # "running")
       /\ (epc = "drain" /\ epc' = "marker") =>
             (killed /\ waiter = "ended" /\ proc = "reaped" /\ ~logMarker)
       /\ (execErr # ErrTestHung /\ execErr' = ErrTestHung) =>
             /\ epc = "marker"
             /\ logFile = "open" /\ tempDir = "exists"
             /\ logMarker' /\ logFile' = "open"
       /\ (execErr = ErrTestHung /\ logFile = "open" /\ logFile' = "closed") =>
             (logMarker /\ tempDir = "exists")
       /\ (execErr = ErrTestHung /\ tempDir = "exists" /\ tempDir' = "removed") =>
             (logMarker /\ logFile = "closed")
       /\ (execErr = ErrTestHung /\ epc # "return" /\ epc' = "return") =>
             (logMarker /\ logFile' = "closed" /\ tempDir' = "removed")
       /\ (epc = "return" /\ execErr = ErrTestHung /\ epc' = "idle") =>
             \E t \in Tasks : \E w \in BOOLEAN :
                 LET r == IF w THEN withRepoResult'[t] ELSE withoutRepoResult'[t]
                 IN  r # NoResult /\ r.Hung
      ]_vars

C34_Witness ==
    /\ epc = "return"
    /\ execErr = ErrTestHung
    /\ exitStatus = "never"
    /\ killed /\ waiter = "ended" /\ done = <<>>
    /\ logMarker /\ logFile = "closed" /\ tempDir = "removed"

\* C35: a trial leaves no goroutine behind.  Whenever TestPackage returns after
\* cmd.Start() succeeded, on the done case and on the timeout case alike, the
\* goroutine of cmd.Wait() has sent its result and ended and the result has
\* been received; once the stream is closed no such goroutine is alive.
C35_NoWaiterLeaked ==
    /\ (epc = "return" /\ proc # "none") => (waiter = "ended" /\ done = <<>>)
    /\ (epc \in {"return", "idle"} /\ proc = "none") => waiter = "none"
    /\ closed => waiter # "waiting"

C35_Witness ==
    /\ epc = "return"
    /\ proc # "none"
    /\ ~killed
    /\ execErr = ErrExit
    /\ waiter = "ended"

\* C36: every result sent on the channel has at most one of Success, Hung and
\* Skipped set, and a result of a trial without the repository that was sent
\* never has Skipped set.
C36_FlagsExclusive ==
    \A i \in 1..Len(sent) :
        LET r == sent[i].result IN
        /\ Cardinality({f \in {"Success", "Hung", "Skipped"} : r[f]}) <= 1
        /\ r.Hung => ~r.Success
        /\ r.Skipped => ~r.Success
        /\ ~(r.Hung /\ r.Skipped)
        /\ ~r.WithRepo => ~r.Skipped

C36_Witness ==
    /\ \E i \in 1..Len(sent) : sent[i].result.WithRepo /\ sent[i].result.Skipped
    /\ \E i \in 1..Len(sent) : ~sent[i].result.WithRepo /\ sent[i].result.Hung
    /\ \E i \in 1..Len(sent) : 
          LET r == sent[i].result
          IN  r.WithRepo /\ ~r.Success /\ ~r.Hung /\ ~r.Skipped

\* C37: when the channel is closed completedTests equals totalTests, the
\* length of the list, whatever the interleaving of the goroutines; no call
\* of updateProgress made by a goroutine of the run takes the early return of
\* the guard current >= total.
C37_AllCountedAtClose ==
    [][/\ closed' => (completedTests' = totalTests' /\ totalTests' = Len(pkgs'))
       /\ \A t \in Tasks :
             (tpc[t] = "updateProgress" /\ tpc'[t] # "updateProgress")
                 => tpc'[t] = "progressAdd"
      ]_vars

C37_Witness ==
    /\ closed
    /\ pkgs = <<"a", "a">>
    /\ concurrency = 2
    /\ completedTests = 2
    /\ totalTests = 2

\* ---------------------------------------------------------------------------
\* AnyLimitSpec: Spec with every value the --concurrency flag can hand to the
\* constructor, zero and negative included (the flag is an int, and neither
\* the command nor the runner tests it).
AnyLimitInit ==
    /\ pkgs \in UnitLists
    /\ concurrency \in -1..MaxConcurrency
    /\ verbose \in BOOLEAN
    /\ yaml \in SUBSET Names
    /\ InitRun
    /\ InitClass
    /\ InitExec
    /\ InitCli

AnyLimitSpec == AnyLimitInit /\ [][Next]_vars

\* C39: with a limit of zero or less and a non-empty list no goroutine ever
\* gets past sem.Acquire: no TestPackage call is made, nothing is sent, the
\* channel is never closed and Run never returns.
C39_NoTokenEver ==
    (concurrency <= 0 /\ Tasks # {}) =>
        /\ \A t \in Tasks :
              /\ tpc[t] \in {"unstarted", "acquire"}
              /\ calls[t].withRepo = 0
              /\ calls[t].withoutRepo = 0
              /\ withRepoResult[t] = NoResult
        /\ sem = 0
        /\ Running = 0
        /\ sent = <<>>
        /\ results = <<>>
        /\ ~closed
        /\ ~Analyzed

C39_Witness ==
    /\ concurrency = -1
    /\ pkgs = <<"a", "b">>
    /\ Launched
    /\ \A t \in Tasks : tpc[t] = "acquire"
    /\ apc # "run"

\* ---------------------------------------------------------------------------
\* RunFairSpec: the run with a limit of at least one, every TestPackage call
\* returning (it is one step here) and the Go scheduler running every runnable
\* goroutine: some enabled step is eventually taken.  No step can be repeated
\* for ever, so this is all the run needs to reach its end.
RunFairInit ==
    /\ pkgs \in UnitLists
    /\ concurrency \in 1..MaxConcurrency
    /\ verbose \in BOOLEAN
    /\ yaml \in SUBSET Names
    /\ InitRun
    /\ InitClass
    /\ InitExec
    /\ InitCli

RunFairSpec == RunFairInit /\ [][Next]_vars /\ WF_vars(Next)

\* every goroutine got the token, ran and gave it back, the channel is closed
\* and analyzeResults has returned
RunEnded ==
    /\ \A t \in Tasks : tpc[t] = "finished" /\ calls[t].withRepo = 1
    /\ sem = 0
    /\ wg = 0
    /\ closed
    /\ results = <<>>
    /\ Analyzed
    /\ retErr # NoRet

\* C38: with a non-empty list, a limit of at least one, returning trials and a
\* fair scheduler, every unit goroutine eventually acquires the token and
\* ends, every token is released, the channel is eventually closed and
\* analyzeResults eventually returns.
C38_RunTerminates == <>RunEnded

C38_Witness ==
    /\ RunEnded
    /\ pkgs = <<"a", "b">>
    /\ concurrency = 1
    /\ exitCode = 0

====
